---------------------------- MODULE Spec2Model ----------------------------
(***************************************************************************)
(* State-machine model of the schema-driven form pipeline of Referential:  *)
(*   - the metadata cache of useODataCRUD (fetchMetadata, clearCache,      *)
(*     clearAllCache) over the module-level Map metadataCache;             *)
(*   - the debounced metadata initialisation of the hook instances         *)
(*     (initMetadataTimers, sharedMetadataState);                          *)
(*   - the form state engine useForm (both implementations).               *)
(* Time is counted in milliseconds, as Date.now() and setTimeout do.       *)
(***************************************************************************)
EXTENDS Integers, Sequences, FiniteSets, TLC

VARIABLES
  now,              \* Date.now()
  ticks,            \* number of clock advances so far (bounds the run)
  metadataCache,    \* module-level Map: cacheKey -> MetadataCache record
  cacheWriter,      \* history: cacheKey -> call that stored the present entry
  cleared,          \* history: keys whose entry a clear removed and no fetch restored
  calls,            \* the fetchMetadata calls made so far, in start order
  loading,          \* hook state `loading`, per hook instance
  error,            \* hook state `error`, per hook instance ("" is null)
  metadata,         \* hook state `metadata`, per hook instance
  timers,           \* the debouncedInitializeMetadata calls so far, one per mounted
                    \* hook instance: its setTimeout timer and its promise
  initMetadataTimers,   \* module-level Map: baseUrl -> timer
  sharedMetadataState,  \* module-level Map: baseUrl -> parsed schema document
  allMetadata,      \* hook state `allMetadata`, per mounted hook instance
  variant,          \* which useForm implementation the form instance runs
  validator,        \* the validator the form was created with
  initialValues,    \* the initialValues argument of useForm
  values,           \* form state `values`, with every queued update applied
  errors,           \* form state `errors`, with every queued update applied
  renderedValues,   \* `values` as of the last render: what the callbacks closed over
  renderedErrors,   \* `errors` as of the last render: what the callbacks closed over
  lastOp,           \* history: the last operation called on the form instance
  crudVariant,      \* which useODataCRUD implementation the hook instance runs
  request,          \* the CRUD call of the hook instance that awaits its response
  outcome,          \* how the last CRUD call settled, with the response it got
  isSubmitting,     \* ODataCreateForm state `isSubmitting`
  onSuccessCalls,   \* the arguments onSuccess was called with by the present submit
  onErrorCalls,     \* the arguments onError was called with by the present submit
  entityMetadata,   \* the entity descriptor the $metadata document holds
  compile,          \* initializeForm: its position and its locals schema, navOptions
  formSchema,       \* hook state `formSchema` (formConfig of the consuming form)
  navigationOptions, \* hook state `navigationOptions`
  previousSchema, \* what the compilation before this one published, if any
  parsedMetadata, \* argument of extractEntityMetadata: the parsed $metadata document
  askedEntityName, \* argument targetEntityName of extractEntityMetadata
  extracted, \* what extractEntityMetadata returned, or that it has not run yet
  factoryVariant, \* createInputFactory of useForm.ts or FormFactory of MetadataExample.tsx
  config, \* the InputConfig the factory was made with
  registry, \* the Map of the factory's registry
  latest, \* per key, the definition of the latest preset call (history)
  factoryCall, \* the last call on the factory and what came of it (history)
  currentMetadata, \* ODataMetadataFetcher state `currentMetadata`
  loadsDone, \* the fetchMetadata calls whose loadMetadata has run to its end
  onMetadataLoadedCalls \* the metadata onMetadataLoaded was called with, in order

cacheVars == <<now, ticks, metadataCache, cacheWriter, cleared, calls, loading, error, metadata>>

initVars == <<timers, initMetadataTimers, sharedMetadataState, allMetadata>>

formVars == <<variant, validator, initialValues, values, errors,
              renderedValues, renderedErrors, lastOp>>

clientVars == <<crudVariant, request, outcome, isSubmitting, onSuccessCalls, onErrorCalls>>

schemaVars == <<entityMetadata, compile, formSchema, navigationOptions, previousSchema>>
extractVars == <<parsedMetadata, askedEntityName, extracted>>
factoryVars == <<factoryVariant, config, registry, latest, factoryCall>>
fetcherVars == <<currentMetadata, loadsDone, onMetadataLoadedCalls>>
kitVars == <<extractVars, factoryVars, fetcherVars>>

vars == <<cacheVars, initVars, formVars, clientVars, schemaVars, kitVars>>

-----------------------------------------------------------------------------
(* Bounds                                                                  *)

MaxCalls == 2       \* fetchMetadata calls per run
MaxTicks == 1       \* clock advances per run
MaxMounts == 3      \* hook instances mounted per run
MaxAdvances == 2    \* clock advances per run of the metadata initialisation

-----------------------------------------------------------------------------
(* Metadata cache: useODataCRUD.ts, cached variant                         *)

\* default of the config parameter cacheTimeout: 5 * 60 * 1000
cacheTimeout == 300000

\* debounce delay of the metadata initialisation, also the coalescing window
DebounceDelay == 300

\* the hook instance whose fetchMetadata, clearCache and clearAllCache run
Hooks == {"h1"}

\* the baseUrl each hook instance was configured with
baseUrlOf == [h \in Hooks |-> "u1"]

BaseUrls == {baseUrlOf[h] : h \in Hooks}

\* names a caller may ask for; "B" can be missing from a schema document
Entities == {"A", "B"}

\* `${baseUrl}:${entityName}`
CacheKey(baseUrl, entityName) == <<baseUrl, entityName>>

CacheKeys == {CacheKey(u, e) : u \in BaseUrls, e \in Entities}

\* null EntityMetadata
NoData == [name |-> ""]

\* What a GET {baseUrl}/odata/$metadata can come back with: a document
\* (the entity types it declares), a network failure, a non-OK status, or a
\* body that does not parse to an EDMX document.
Responses ==
  [kind : {"ok"}, entities : {{"A", "B"}, {"A"}}]
    \cup [kind : {"network", "status", "malformed"}, entities : {{}}]

\* extractEntityMetadata that answers an empty descriptor for a name the
\* document does not declare
extractEntityMetadataLenient(resp, targetEntityName) ==
  IF resp.kind = "ok" THEN [name |-> targetEntityName] ELSE NoData

\* extractEntityMetadata: the descriptor of the entity type whose Name equals
\* targetEntityName, or null (NoData) when there is none or the document is
\* not an EDMX document (the catch branch)
extractEntityMetadata(resp, targetEntityName) ==
  IF resp.kind = "ok" /\ targetEntityName \in resp.entities
    THEN [name |-> targetEntityName]
    ELSE NoData

\* isCacheValid with the comparison made inclusive
isCacheValidInclusive(cache, t) == t <= cache.expiresAt

\* isCacheValid
isCacheValid(cache, t) == t < cache.expiresAt

\* Map.set / Map.delete on a function whose domain is the set of keys present
MapSet(m, k, v) == [x \in DOMAIN m \cup {k} |-> IF x = k THEN v ELSE m[x]]
MapDelete(m, k) == [x \in DOMAIN m \ {k} |-> m[x]]
EmptyMap == [x \in {} |-> 0]

\* the message of the Error a failed fetchMetadata throws
FetchErrorMessage(resp, entityName) ==
  CASE resp.kind = "network" -> "Failed to fetch"
    [] resp.kind = "status" -> "HTTP error! status"
    [] OTHER -> "Entity not found in metadata"

\* fetchMetadata up to its first await: the cache check, then either the
\* cached descriptor is returned or the request is issued.
fetchMetadata(h, entityName, forceRefresh) ==
  LET cacheKey == CacheKey(baseUrlOf[h], entityName)
      hit == /\ ~forceRefresh
             /\ cacheKey \in DOMAIN metadataCache
             /\ isCacheValid(metadataCache[cacheKey], now)
      call == [hook |-> h, entityName |-> entityName, forceRefresh |-> forceRefresh,
               startedAt |-> now,
               entryAtStart |-> IF cacheKey \in DOMAIN metadataCache
                                  THEN metadataCache[cacheKey].expiresAt ELSE -1,
               afterClear |-> cacheKey \in cleared,
               siblingAtStart |-> \E k \in DOMAIN metadataCache :
                                     /\ k[1] = baseUrlOf[h]
                                     /\ k # cacheKey
                                     /\ now < metadataCache[k].expiresAt,
               pc |-> IF hit THEN "resolved" ELSE "fetching",
               issued |-> ~hit,
               stored |-> FALSE,
               result |-> IF hit THEN metadataCache[cacheKey].data ELSE NoData]
  IN /\ Len(calls) < MaxCalls
     /\ calls' = Append(calls, call)
     /\ IF hit
          THEN /\ metadata' = [metadata EXCEPT ![h] = metadataCache[cacheKey].data]
               /\ UNCHANGED <<loading, error>>
          ELSE /\ loading' = [loading EXCEPT ![h] = TRUE]
               /\ error' = [error EXCEPT ![h] = ""]
               /\ UNCHANGED metadata
     /\ UNCHANGED <<now, ticks, metadataCache, cacheWriter, cleared, initVars, formVars, clientVars, schemaVars, kitVars>>

\* a store that keeps an entry that is already there
StoreEntryKeepExisting(cache, cacheKey, entityData, t) ==
  IF cacheKey \in DOMAIN cache
    THEN cache
    ELSE MapSet(cache, cacheKey,
                [data |-> entityData, timestamp |-> t, expiresAt |-> t + cacheTimeout])

\* a store whose record expires at the moment it is written
StoreEntryNoTimeout(cache, cacheKey, entityData, t) ==
  MapSet(cache, cacheKey,
         [data |-> entityData, timestamp |-> t, expiresAt |-> t])

\* the store of a successful fetch: metadataCache.set(cacheKey, cacheEntry)
StoreEntry(cache, cacheKey, entityData, t) ==
  MapSet(cache, cacheKey,
         [data |-> entityData, timestamp |-> t, expiresAt |-> t + cacheTimeout])

\* the rest of fetchMetadata, run when the response of call c arrives
fetchMetadataComplete(c, resp) ==
  LET call == calls[c]
      h == call.hook
      cacheKey == CacheKey(baseUrlOf[h], call.entityName)
      entityData == extractEntityMetadata(resp, call.entityName)
      ok == resp.kind = "ok" /\ entityData # NoData
  IN /\ call.pc = "fetching"
     /\ IF ok
          THEN /\ metadataCache' = StoreEntry(metadataCache, cacheKey, entityData, now)
               /\ cacheWriter' = MapSet(cacheWriter, cacheKey, c)
               /\ cleared' = cleared \ {cacheKey}
               /\ metadata' = [metadata EXCEPT ![h] = entityData]
               /\ calls' = [calls EXCEPT ![c].pc = "resolved",
                                         ![c].stored = TRUE,
                                         ![c].result = entityData]
               /\ UNCHANGED error
          ELSE /\ error' = [error EXCEPT ![h] = FetchErrorMessage(resp, call.entityName)]
               /\ calls' = [calls EXCEPT ![c].pc = "rejected"]
               /\ UNCHANGED <<metadataCache, cacheWriter, cleared, metadata>>
     /\ loading' = [loading EXCEPT ![h] = FALSE]
     /\ UNCHANGED <<now, ticks, initVars, formVars, clientVars, schemaVars, kitVars>>

\* clearCache that drops every entry of the hook's baseUrl
clearCacheWholeBaseUrl(h, entityName) ==
  /\ metadataCache' = [k \in {x \in DOMAIN metadataCache : x[1] # baseUrlOf[h]}
                          |-> metadataCache[k]]
  /\ cacheWriter' = [k \in {x \in DOMAIN cacheWriter : x[1] # baseUrlOf[h]}
                        |-> cacheWriter[k]]
  /\ cleared' = cleared \cup {x \in DOMAIN metadataCache : x[1] = baseUrlOf[h]}
  /\ UNCHANGED <<now, ticks, calls, loading, error, metadata, initVars, formVars, clientVars, schemaVars, kitVars>>

\* clearCache(entityName) of hook h
clearCache(h, entityName) ==
  LET cacheKey == CacheKey(baseUrlOf[h], entityName)
  IN /\ metadataCache' = MapDelete(metadataCache, cacheKey)
     /\ cacheWriter' = MapDelete(cacheWriter, cacheKey)
     /\ cleared' = cleared \cup (DOMAIN metadataCache \cap {cacheKey})
     /\ UNCHANGED <<now, ticks, calls, loading, error, metadata, initVars, formVars, clientVars, schemaVars, kitVars>>

\* clearAllCache()
clearAllCache ==
  /\ metadataCache' = EmptyMap
  /\ cacheWriter' = EmptyMap
  /\ cleared' = cleared \cup DOMAIN metadataCache
  /\ UNCHANGED <<now, ticks, calls, loading, error, metadata, initVars, formVars, clientVars, schemaVars, kitVars>>

\* the clock advances; the steps let a run stand within the coalescing
\* window of an earlier call (an entry is then unexpired) and at an entry's
\* expiresAt
ClockSteps == {1, cacheTimeout}

Tick(d) ==
  /\ ticks < MaxTicks
  /\ now' = now + d
  /\ ticks' = ticks + 1
  /\ UNCHANGED <<metadataCache, cacheWriter, cleared, calls, loading, error, metadata, initVars, formVars, clientVars, schemaVars, kitVars>>

InitCache ==
  /\ now = 0
  /\ ticks = 0
  /\ metadataCache = EmptyMap
  /\ cacheWriter = EmptyMap
  /\ cleared = {}
  /\ calls = <<>>
  /\ loading = [h \in Hooks |-> FALSE]
  /\ error = [h \in Hooks |-> ""]
  /\ metadata = [h \in Hooks |-> NoData]

\* no hook instance is mounted
InitNoMounts ==
  /\ timers = <<>>
  /\ initMetadataTimers = EmptyMap
  /\ sharedMetadataState = EmptyMap
  /\ allMetadata = <<>>

\* no operation was called on the form yet
NoOp == [op |-> "none", key |-> "", given |-> FALSE, pre |-> FALSE, ret |-> TRUE, out |-> ""]

\* no form instance is in use
InitFormIdle ==
  /\ variant = "useForm"
  /\ validator = "none"
  /\ initialValues = EmptyMap
  /\ values = initialValues
  /\ errors = EmptyMap
  /\ renderedValues = values
  /\ renderedErrors = errors
  /\ lastOp = NoOp

\* no CRUD call is awaiting a response
NoRequest == [op |-> "none", by |-> "none"]

\* no CRUD call has settled
NoOutcome ==
  [op |-> "none", by |-> "none", kind |-> "none", tagged |-> FALSE, errors |-> EmptyMap,
   message |-> "", value |-> "none", response |-> [kind |-> "none"]]

\* the hook instance has made no CRUD call and no form was submitted
InitClientIdle ==
  /\ crudVariant = "cached"
  /\ request = NoRequest
  /\ outcome = NoOutcome
  /\ isSubmitting = FALSE
  /\ onSuccessCalls = <<>>
  /\ onErrorCalls = <<>>

\* initializeForm has not run and no schema was compiled
NoCompile ==
  [pc |-> "idle", schema |-> EmptyMap, initialValues |-> EmptyMap, navOptions |-> EmptyMap,
   pending |-> <<>>, got |-> EmptyMap]

NoSchema == [schema |-> EmptyMap, initialValues |-> EmptyMap]

InitSchemaIdle ==
  /\ entityMetadata = [name |-> "", properties |-> <<>>, navigationProperties |-> <<>>]
  /\ compile = NoCompile
  /\ formSchema = NoSchema
  /\ navigationOptions = EmptyMap
  /\ previousSchema = <<>>

\* no document has been handed to extractEntityMetadata
NotExtracted == [kind |-> "pending"]

InitExtractIdle ==
  /\ parsedMetadata = [edmx |-> FALSE, Schema |-> <<>>]
  /\ askedEntityName = <<>>
  /\ extracted = NotExtracted

\* no call on the factory yet
NoFactoryCall ==
  [op |-> "none", key |-> "", overrides |-> EmptyMap, kind |-> "returned",
   definition |-> EmptyMap, elements |-> EmptyMap, message |-> ""]

InitFactoryIdle ==
  /\ factoryVariant = "createInputFactory"
  /\ config = [components |-> EmptyMap, defaultComponent |-> ""]
  /\ registry = EmptyMap
  /\ latest = EmptyMap
  /\ factoryCall = NoFactoryCall

\* the fetcher component has loaded nothing
InitFetcherIdle ==
  /\ currentMetadata = NoData
  /\ loadsDone = {}
  /\ onMetadataLoadedCalls = <<>>

InitKitIdle == InitExtractIdle /\ InitFactoryIdle /\ InitFetcherIdle

Init == InitCache /\ InitNoMounts /\ InitFormIdle /\ InitClientIdle /\ InitSchemaIdle /\ InitKitIdle

Next ==
  \/ \E h \in Hooks, e \in Entities, f \in BOOLEAN : fetchMetadata(h, e, f)
  \/ \E c \in 1..Len(calls), resp \in Responses : fetchMetadataComplete(c, resp)
  \/ \E h \in Hooks, e \in Entities : clearCache(h, e)
  \/ clearAllCache
  \/ \E d \in ClockSteps : Tick(d)

Spec == Init /\ [][Next]_vars

-----------------------------------------------------------------------------
(* Debounced metadata initialisation: useODataCRUD.ts, cached variant      *)

\* interval of the checkSharedMetadata poll
PollInterval == 100

\* the baseUrl the mounted instances are configured with
InitBaseUrls == {"u1"}

\* null parsed metadata
NoDoc == [kind |-> "none", entities |-> {}]

\* what the GET of a fired timer can come back with
InitResponses ==
  [kind : {"ok"}, entities : {{"A", "B"}}]
    \cup [kind : {"network", "status"}, entities : {{}}]

\* the value of `sharedMetadataState.get(baseUrl) || null`
SharedOrNull(u) ==
  IF u \in DOMAIN sharedMetadataState THEN sharedMetadataState[u] ELSE NoDoc

\* clearTimeout: a timer that has not fired is cancelled, one that has fired
\* is not affected
clearTimeout(ts, t) ==
  IF ts[t].state = "pending" THEN [ts EXCEPT ![t].state = "cancelled"] ELSE ts

\* A hook instance with baseUrl u mounts: allMetadata starts from the shared
\* state, and the init effect calls debouncedInitializeMetadata, which clears
\* the timer registered for u, starts a 300 ms timer and registers it.
debouncedInitializeMetadata(u) ==
  LET cleared1 == IF u \in DOMAIN initMetadataTimers
                    THEN clearTimeout(timers, initMetadataTimers[u])
                    ELSE timers
      timer == [baseUrl |-> u, scheduledAt |-> now, fireAt |-> now + DebounceDelay,
                state |-> "pending", promise |-> "pending"]
  IN /\ Len(timers) < MaxMounts
     /\ timers' = Append(cleared1, timer)
     /\ initMetadataTimers' = MapSet(initMetadataTimers, u, Len(timers) + 1)
     /\ allMetadata' = Append(allMetadata, SharedOrNull(u))
     /\ UNCHANGED <<sharedMetadataState, cacheVars, formVars, clientVars, schemaVars, kitVars>>

\* the timer callback starts: the GET {baseUrl}/odata/$metadata is issued
TimerFire(t) ==
  /\ timers[t].state = "pending"
  /\ timers[t].fireAt <= now
  /\ timers' = [timers EXCEPT ![t].state = "fetching"]
  /\ UNCHANGED <<initMetadataTimers, sharedMetadataState, allMetadata, cacheVars, formVars, clientVars, schemaVars, kitVars>>

\* the rest of the timer callback, run when the response arrives
TimerFetchDone(t, resp) ==
  LET u == timers[t].baseUrl
  IN /\ timers[t].state = "fetching"
     /\ IF resp.kind = "ok"
          THEN /\ sharedMetadataState' = MapSet(sharedMetadataState, u, resp)
               /\ allMetadata' = [allMetadata EXCEPT ![t] = resp]
               /\ timers' = [timers EXCEPT ![t].state = "done", ![t].promise = "resolved"]
          ELSE /\ timers' = [timers EXCEPT ![t].state = "done", ![t].promise = "rejected"]
               /\ UNCHANGED <<sharedMetadataState, allMetadata>>
     /\ initMetadataTimers' = MapDelete(initMetadataTimers, u)
     /\ UNCHANGED <<cacheVars, formVars, clientVars, schemaVars, kitVars>>

\* checkSharedMetadata that syncs only an instance whose own timer was not
\* cancelled
checkSharedMetadataUnlessCancelled(i) ==
  LET shared == SharedOrNull(timers[i].baseUrl)
  IN /\ now >= timers[i].scheduledAt + PollInterval
     /\ timers[i].state # "cancelled"
     /\ shared # NoDoc /\ allMetadata[i] = NoDoc
     /\ allMetadata' = [allMetadata EXCEPT ![i] = shared]
     /\ UNCHANGED <<timers, initMetadataTimers, sharedMetadataState, cacheVars, formVars, clientVars, schemaVars, kitVars>>

\* checkSharedMetadata of instance i, run by its 100 ms interval
checkSharedMetadata(i) ==
  LET shared == SharedOrNull(timers[i].baseUrl)
  IN /\ now >= timers[i].scheduledAt + PollInterval
     /\ shared # NoDoc /\ allMetadata[i] = NoDoc
     /\ allMetadata' = [allMetadata EXCEPT ![i] = shared]
     /\ UNCHANGED <<timers, initMetadataTimers, sharedMetadataState, cacheVars, formVars, clientVars, schemaVars, kitVars>>

\* the clock advances by one poll interval or by the debounce delay
AdvanceSteps == {PollInterval, DebounceDelay}

Advance(d) ==
  /\ ticks < MaxAdvances
  /\ now' = now + d
  /\ ticks' = ticks + 1
  /\ UNCHANGED <<metadataCache, cacheWriter, cleared, calls, loading, error, metadata,
                 initVars, formVars, clientVars, schemaVars, kitVars>>

NextDebounce ==
  \/ \E u \in InitBaseUrls : debouncedInitializeMetadata(u)
  \/ \E t \in 1..Len(timers) : TimerFire(t)
  \/ \E t \in 1..Len(timers), resp \in InitResponses : TimerFetchDone(t, resp)
  \/ \E i \in 1..Len(timers) : checkSharedMetadata(i)
  \/ \E d \in AdvanceSteps : Advance(d)

InitDebounce ==
  InitCache /\ InitNoMounts /\ InitFormIdle /\ InitClientIdle /\ InitSchemaIdle /\ InitKitIdle

SpecDebounce == InitDebounce /\ [][NextDebounce]_vars

\* setInterval(checkSharedMetadata, 100) keeps calling the poll of every
\* mounted instance: a poll that stays due is run
SpecDebounceFair ==
  /\ InitDebounce /\ [][NextDebounce]_vars
  /\ \A i \in 1..MaxMounts :
       WF_vars(i \in 1..Len(timers) /\ checkSharedMetadata(i))

TimerIds == 1..Len(timers)

\* C6: once the shared fetch of a baseUrl has completed and no timer of that
\* baseUrl is pending or fetching any more, the promise of every caller of
\* that baseUrl has settled, with the outcome of the fetch: also the promise
\* of a caller whose own timer was superseded.
C6_CoalescedCallersSettle ==
  \A t \in TimerIds :
    (/\ \E d \in TimerIds : timers[d].baseUrl = timers[t].baseUrl /\ timers[d].state = "done"
     /\ \A o \in TimerIds :
          timers[o].baseUrl = timers[t].baseUrl => timers[o].state \in {"cancelled", "done"})
      => timers[t].promise # "pending"

-----------------------------------------------------------------------------
(* Form state engine: Builder/core/useForm.ts (useForm; FormProvider holds *)
(* the same setValue, setValuesMultiple, resetValues, setError, clearError *)
(* and clearAllErrors) and the useForm of Referential/MetadataExample.tsx. *)
(* A state update is queued and applied before the next render, so values  *)
(* and errors hold the state with every queued update applied, while a     *)
(* callback reads the state of the render that created it.                 *)

FormVariants == {"useForm", "useFormExample"}

FormKeys == {"a", "b"}

FieldValues == {"", "x"}

\* the message setError is called with
ErrorMessages == {"invalid"}

Validators == {"none", "required"}

\* the objects a caller may pass as values: any subset of the fields
ValueMaps == UNION {[ks -> FieldValues] : ks \in SUBSET FormKeys}

InitialValueChoices == {[k \in FormKeys |-> ""], [k \in FormKeys |-> IF k = "a" THEN "x" ELSE ""]}

\* { ...a, ...b }
Merge(a, b) == [k \in DOMAIN a \cup DOMAIN b |-> IF k \in DOMAIN b THEN b[k] ELSE a[k]]

\* the object without the keys ks
Without(m, ks) == [k \in DOMAIN m \ ks |-> m[k]]

\* !!m[k]
Truthy(m, k) == k \in DOMAIN m /\ m[k] # ""

\* the injected validator: "required" reports every field that is empty
Validate(vs) ==
  [k \in {x \in FormKeys : x \notin DOMAIN vs \/ vs[x] = ""} |-> "required"]

Op(name, k, given, pre, ret) ==
  [op |-> name, key |-> k, given |-> given, pre |-> pre, ret |-> ret, out |-> ""]

FormFrame ==
  UNCHANGED <<variant, validator, initialValues, cacheVars, initVars, clientVars, schemaVars, kitVars>>

\* setValue(key, value)
setValue(k, v) ==
  /\ values' = MapSet(values, k, v)
  /\ errors' = IF variant = "useForm"
                 THEN IF Truthy(renderedErrors, k) THEN Without(errors, {k}) ELSE errors
                 ELSE Without(errors, {k})
  /\ lastOp' = Op("setValue", k, TRUE, k \in DOMAIN errors, TRUE)
  /\ UNCHANGED <<renderedValues, renderedErrors>>
  /\ FormFrame

\* setValuesMultiple that drops every error
setValuesMultipleClearAll(newValues) ==
  /\ values' = Merge(values, newValues)
  /\ errors' = EmptyMap
  /\ lastOp' = Op("patchValues", "", TRUE, DOMAIN newValues \cap DOMAIN errors # {}, TRUE)
  /\ UNCHANGED <<renderedValues, renderedErrors>>
  /\ FormFrame

\* setValuesMultiple (setValues and patchValues of the form instance)
setValuesMultiple(newValues) ==
  /\ values' = Merge(values, newValues)
  /\ errors' = Without(errors, DOMAIN newValues)
  /\ lastOp' = Op("patchValues", "", TRUE, DOMAIN newValues \cap DOMAIN errors # {}, TRUE)
  /\ UNCHANGED <<renderedValues, renderedErrors>>
  /\ FormFrame

\* resetValues that leaves the error map alone
resetValuesKeepErrors(given, newValues) ==
  /\ values' = IF given THEN newValues ELSE initialValues
  /\ UNCHANGED errors
  /\ lastOp' = Op("resetValues", "", given, errors # EmptyMap /\ values # values', TRUE)
  /\ UNCHANGED <<renderedValues, renderedErrors>>
  /\ FormFrame

\* resetValues(newValues?): given tells whether the argument was passed
resetValues(given, newValues) ==
  /\ values' = IF given THEN newValues ELSE initialValues
  /\ errors' = EmptyMap
  /\ lastOp' = Op("resetValues", "", given, errors # EmptyMap /\ values # values', TRUE)
  /\ UNCHANGED <<renderedValues, renderedErrors>>
  /\ FormFrame

\* setError that replaces the whole error map
setErrorAlone(k, m) ==
  /\ variant = "useForm"
  /\ errors' = [j \in {k} |-> m]
  /\ lastOp' = Op("setError", k, TRUE, k \in DOMAIN errors, TRUE)
  /\ UNCHANGED <<values, renderedValues, renderedErrors>>
  /\ FormFrame

\* setError(key, error): Builder/core only
setError(k, m) ==
  /\ variant = "useForm"
  /\ errors' = MapSet(errors, k, m)
  /\ lastOp' = Op("setError", k, TRUE, k \in DOMAIN errors, TRUE)
  /\ UNCHANGED <<values, renderedValues, renderedErrors>>
  /\ FormFrame

\* clearError(key): Builder/core only
clearError(k) ==
  /\ variant = "useForm"
  /\ errors' = Without(errors, {k})
  /\ lastOp' = Op("clearError", k, TRUE, k \in DOMAIN errors, TRUE)
  /\ UNCHANGED <<values, renderedValues, renderedErrors>>
  /\ FormFrame

\* clearAllErrors(): Builder/core only
clearAllErrors ==
  /\ variant = "useForm"
  /\ errors' = EmptyMap
  /\ lastOp' = Op("clearAllErrors", "", FALSE, errors # EmptyMap, TRUE)
  /\ UNCHANGED <<values, renderedValues, renderedErrors>>
  /\ FormFrame

\* validateFields(): the validator runs over the values its closure holds.
\* Builder/core clears the errors and then sets each reported error;
\* MetadataExample returns at once without a validator and else replaces the
\* error map.
validateFieldsErrors ==
  IF validator = "none"
    THEN IF variant = "useForm" THEN EmptyMap ELSE errors
    ELSE Validate(renderedValues)

\* what validateFields() returns
validateFieldsReturn == validator = "none" \/ Validate(renderedValues) = EmptyMap

validateFields ==
  /\ errors' = validateFieldsErrors
  /\ lastOp' = Op("validateFields", "", FALSE, errors # EmptyMap, validateFieldsReturn)
  /\ UNCHANGED <<values, renderedValues, renderedErrors>>
  /\ FormFrame

\* what submit writes to the console after a failed validation
FailedLine == [v \in FormVariants |->
                 IF v = "useForm" THEN "Form has validation errors" ELSE "Validation errors:"]

\* submit that skips the validation
submitUnchecked ==
  /\ lastOp' = [Op("submit", "", FALSE, errors # EmptyMap, TRUE)
                  EXCEPT !.out = "Form submitted:"]
  /\ UNCHANGED <<values, errors, renderedValues, renderedErrors>>
  /\ FormFrame

\* submit(): validateFields(), then one console line; "Form submitted:" is
\* written with the values the closure holds.  out is that line.
submit ==
  /\ errors' = validateFieldsErrors
  /\ lastOp' = [Op("submit", "", FALSE, errors # EmptyMap, validateFieldsReturn)
                  EXCEPT !.out = IF validateFieldsReturn THEN "Form submitted:"
                                 ELSE FailedLine[variant]]
  /\ UNCHANGED <<values, renderedValues, renderedErrors>>
  /\ FormFrame

\* React renders the component again: the callbacks are created anew over the
\* state with the queued updates applied
Render ==
  /\ <<renderedValues, renderedErrors>> # <<values, errors>>
  /\ renderedValues' = values
  /\ renderedErrors' = errors
  /\ UNCHANGED <<values, errors, lastOp>>
  /\ FormFrame

\* a form instance right after its first render
InitForm ==
  /\ InitCache /\ InitNoMounts /\ InitClientIdle /\ InitSchemaIdle /\ InitKitIdle
  /\ variant \in FormVariants
  /\ validator \in Validators
  /\ initialValues \in InitialValueChoices
  /\ values = initialValues
  /\ errors = EmptyMap
  /\ renderedValues = values
  /\ renderedErrors = errors
  /\ lastOp = NoOp

NextForm ==
  \/ \E k \in FormKeys, v \in FieldValues : setValue(k, v)
  \/ \E nv \in ValueMaps : setValuesMultiple(nv)
  \/ resetValues(FALSE, EmptyMap)
  \/ \E nv \in ValueMaps : resetValues(TRUE, nv)
  \/ \E k \in FormKeys, m \in ErrorMessages : setError(k, m)
  \/ \E k \in FormKeys : clearError(k)
  \/ clearAllErrors
  \/ validateFields
  \/ submit
  \/ Render

SpecForm == InitForm /\ [][NextForm]_vars

\* a form instance whose initialValues and schema have the key "a" alone
InitFormOneField ==
  /\ InitCache /\ InitNoMounts /\ InitClientIdle /\ InitSchemaIdle /\ InitKitIdle
  /\ variant \in FormVariants
  /\ validator \in Validators
  /\ initialValues \in {[k \in {"a"} |-> v] : v \in FieldValues}
  /\ values = initialValues
  /\ errors = EmptyMap
  /\ renderedValues = values
  /\ renderedErrors = errors
  /\ lastOp = NoOp

SpecFormOneField == InitFormOneField /\ [][NextForm]_vars

\* C9: setValue(k, v) sets values[k] to v, removes errors[k] when it is
\* present, also when that error was set since the last render, and changes
\* the value and the error of no other key.
C9_SetValueClearsOwnError ==
  [][\A k \in FormKeys, v \in FieldValues :
       setValue(k, v) =>
         /\ values' = MapSet(values, k, v)
         /\ k \notin DOMAIN errors'
         /\ \A j \in FormKeys \ {k} :
              /\ (j \in DOMAIN errors') = (j \in DOMAIN errors)
              /\ j \in DOMAIN errors => errors'[j] = errors[j]]_vars

\* C10: resetValues() leaves values equal to the initial values and the error
\* map empty, a second resetValues() right after it changes nothing, and
\* resetValues(v) leaves values equal to v and the error map empty.
C10_ResetRestoresInitial ==
  [][/\ resetValues(FALSE, EmptyMap) =>
          /\ values' = initialValues
          /\ errors' = EmptyMap
          /\ (lastOp.op = "resetValues" /\ ~lastOp.given)
               => (values' = values /\ errors' = errors)
     /\ \A nv \in ValueMaps :
          resetValues(TRUE, nv) => (values' = nv /\ errors' = EmptyMap)]_vars

\* resetValues() was called on a form that had errors and values other than
\* the initial ones
C10_Witness ==
  /\ lastOp.op = "resetValues" /\ ~lastOp.given /\ lastOp.pre
  /\ values = initialValues
  /\ errors = EmptyMap

\* C11: validateFields() runs the validator over the current values of the
\* form, those written by earlier setValue and patchValues calls included:
\* it leaves the error map equal to the validator's result, leaves the values
\* unchanged and returns TRUE exactly when that result is empty; without a
\* validator it returns TRUE.
C11_ValidateOverCurrentValues ==
  [][validateFields =>
       /\ values' = values
       /\ validator = "none" => lastOp'.ret
       /\ validator # "none" =>
            /\ errors' = Validate(values)
            /\ lastOp'.ret = (Validate(values) = EmptyMap)]_vars

\* C12: submit() validates the values it holds and writes "Form submitted:"
\* with them only if the validator reported no error for them; when the
\* validator reports errors, submit changes neither the values nor anything
\* else but the error map, which becomes the result of the validator, and
\* nothing is submitted.
C12_InvalidSubmitOnlySetsErrors ==
  [][submit =>
       /\ lastOp'.out = "Form submitted:" =>
            (validator = "none" \/ Validate(renderedValues) = EmptyMap)
       /\ (validator # "none" /\ Validate(renderedValues) # EmptyMap) =>
            /\ errors' = Validate(renderedValues)
            /\ lastOp'.out # "Form submitted:"
            /\ ~lastOp'.ret
            /\ UNCHANGED <<values, renderedValues, renderedErrors, variant, validator,
                           initialValues, cacheVars, initVars, clientVars, schemaVars, kitVars>>]_vars

\* submit() was called on values the validator rejects
C12_Witness ==
  /\ lastOp.op = "submit" /\ ~lastOp.ret
  /\ errors = Validate(renderedValues) /\ errors # EmptyMap
  /\ values = renderedValues

\* C13: patchValues(partial) sets values[k] to partial[k] for every key of
\* partial and removes the errors of exactly those keys; the value and the
\* error of every other key are unchanged.
C13_PatchValuesFrame ==
  [][\A nv \in ValueMaps :
       setValuesMultiple(nv) =>
         /\ DOMAIN values' = DOMAIN values \cup DOMAIN nv
         /\ \A k \in DOMAIN nv : values'[k] = nv[k] /\ k \notin DOMAIN errors'
         /\ \A k \in DOMAIN values \ DOMAIN nv : values'[k] = values[k]
         /\ \A k \in FormKeys \ DOMAIN nv :
              /\ (k \in DOMAIN errors') = (k \in DOMAIN errors)
              /\ k \in DOMAIN errors => errors'[k] = errors[k]]_vars

\* patchValues was called with a key that had an error while another key,
\* not in the patch, had one too and keeps it
C13_Witness ==
  /\ lastOp.op = "patchValues" /\ lastOp.pre
  /\ errors # EmptyMap

-----------------------------------------------------------------------------
(* Claims about the metadata cache                                         *)

KeyOf(c) == CacheKey(baseUrlOf[calls[c].hook], calls[c].entityName)

CallIds == 1..Len(calls)

\* C1: two fetchMetadata calls for the same baseUrl and entity that start
\* within the 300 ms coalescing window of each other never both have a
\* GET {baseUrl}/odata/$metadata request in flight: they share one request.
C1_OneRequestPerWindow ==
  \A c1, c2 \in CallIds :
    (/\ c1 < c2
     /\ KeyOf(c1) = KeyOf(c2)
     /\ calls[c2].startedAt - calls[c1].startedAt < DebounceDelay
     /\ calls[c1].pc = "fetching")
      => ~(calls[c1].issued /\ calls[c2].issued)

\* C2: when two fetches for the same cache key have both completed and stored,
\* the entry that remains is never the one of the fetch that started earlier:
\* a response that arrives after a later-started fetch has stored is discarded.
C2_LaterStartedFetchWins ==
  \A c1, c2 \in CallIds :
    (/\ c1 < c2
     /\ KeyOf(c1) = KeyOf(c2)
     /\ calls[c1].stored /\ calls[c2].stored
     /\ KeyOf(c1) \in DOMAIN cacheWriter)
      => cacheWriter[KeyOf(c1)] # c1

\* C3: a fetchMetadata call without forceRefresh is answered from the cache,
\* with no request, exactly when an entry for its key existed at the call and
\* the time of the call was strictly before the entry's expiresAt; it then
\* returns that entry's descriptor.  At or after expiresAt it issues a request.
C3_CachedOnlyBeforeExpiry ==
  \A c \in CallIds :
    ~calls[c].forceRefresh =>
      LET fresh == /\ calls[c].entryAtStart # -1
                   /\ calls[c].startedAt < calls[c].entryAtStart
      IN /\ calls[c].issued <=> ~fresh
         /\ fresh => /\ calls[c].pc = "resolved"
                     /\ calls[c].result = [name |-> calls[c].entityName]

\* a call without forceRefresh made exactly at the expiresAt of the entry of
\* its key, which issued a request
C3_Witness ==
  \E c \in CallIds :
    /\ ~calls[c].forceRefresh
    /\ calls[c].entryAtStart = calls[c].startedAt
    /\ calls[c].issued

\* C4: a fetchMetadata call with forceRefresh always issues a request, also
\* when an unexpired entry exists, and the entry it stores on success holds the
\* descriptor it fetched, stamped no earlier than the call.
C4_ForceRefreshFetchesAndReplaces ==
  \A c \in CallIds :
    calls[c].forceRefresh =>
      /\ calls[c].issued
      /\ (/\ calls[c].stored
          /\ KeyOf(c) \in DOMAIN cacheWriter
          /\ cacheWriter[KeyOf(c)] = c)
           => /\ KeyOf(c) \in DOMAIN metadataCache
              /\ metadataCache[KeyOf(c)].data = calls[c].result
              /\ metadataCache[KeyOf(c)].timestamp >= calls[c].startedAt
              /\ metadataCache[KeyOf(c)].expiresAt
                   = metadataCache[KeyOf(c)].timestamp + cacheTimeout

\* a forceRefresh call made while an unexpired entry existed, which has
\* stored a newer entry in its place
C4_Witness ==
  \E c \in CallIds :
    /\ calls[c].forceRefresh
    /\ calls[c].startedAt < calls[c].entryAtStart
    /\ calls[c].stored
    /\ KeyOf(c) \in DOMAIN cacheWriter
    /\ cacheWriter[KeyOf(c)] = c
    /\ metadataCache[KeyOf(c)].expiresAt > calls[c].entryAtStart

\* the response makes the fetch fail
FailureResponse(resp, entityName) ==
  resp.kind # "ok" \/ entityName \notin resp.entities

\* C5: when the response of a fetchMetadata call is a failure (network error,
\* non-OK status, malformed document, entity name not in the document), the
\* call rejects, the hook's error state holds a message and the metadata
\* cache is left exactly as it was.
C5_FailureLeavesCache ==
  [][\A c \in CallIds, resp \in Responses :
       (fetchMetadataComplete(c, resp) /\ FailureResponse(resp, calls[c].entityName))
         => /\ calls'[c].pc = "rejected"
            /\ error'[calls[c].hook] # ""
            /\ metadataCache' = metadataCache]_vars

\* a rejected call whose hook shows the error, with an entry still cached
C5_Witness ==
  \E c \in CallIds :
    /\ calls[c].pc = "rejected"
    /\ error[calls[c].hook] # ""
    /\ DOMAIN metadataCache # {}

\* C7: a fetchMetadata call without forceRefresh issues no request when the
\* schema document of its baseUrl was already fetched for another entity and
\* that fetch's TTL has not elapsed.
C7_OneFetchPerEndpoint ==
  \A c \in CallIds :
    (~calls[c].forceRefresh /\ calls[c].siblingAtStart) => ~calls[c].issued

-----------------------------------------------------------------------------
(* CRUD client: getById, create, update and patch of useODataCRUD.ts, in   *)
(* the entity-bound implementation (lines 1-705), the cached one (lines    *)
(* 707-1489) and the one of src/unnamed/part_007.                          *)

CrudVariants == {"entityBound", "cached", "part007"}

\* the fields a response body names
CrudFields == {"Name", "Price"}

\* a JSON value of a field of the body: a list of messages or one string
ListOf(items) == [kind |-> "list", items |-> items]

StringOf(text) == [kind |-> "string", items |-> <<text>>]

MessageValues ==
  {ListOf(<<>>), ListOf(<<"m1">>), ListOf(<<"m1", "m2">>), StringOf("m2")}

\* the JSON objects from field name to messages
FieldMaps == UNION {[fs -> MessageValues] : fs \in SUBSET CrudFields}

\* detail.target: with or without the path prefix "#/"; "" is no target
Targets ==
  {[prefix |-> FALSE, name |-> ""], [prefix |-> FALSE, name |-> "Name"],
   [prefix |-> TRUE, name |-> "Name"], [prefix |-> FALSE, name |-> "Price"]}

\* the entries of error.details
Details == [target : Targets, message : {"", "m1", "m2"}]

DetailLists == {<<>>} \cup {<<d>> : d \in Details} \cup {<<d, e>> : d, e \in Details}

\* errorData.error.message: absent, a string or an object keyed by field
NoMessage == [kind |-> "absent", text |-> "", map |-> EmptyMap]

ErrorMessageValues ==
  {NoMessage, [kind |-> "string", text |-> "boom", map |-> EmptyMap]}
    \cup {[kind |-> "object", text |-> "", map |-> m] : m \in FieldMaps}

\* the parsed body of a non-OK response: its own fields (bare) and, when it
\* has the property `error`, error.details and error.message
Body(bare, hasError, details, message) ==
  [bare |-> bare, hasError |-> hasError, details |-> details, message |-> message]

\* bodies without `error`, bodies with error.details and at most a string
\* error.message, bodies with an object error.message and at most one entry
\* of error.details, and bodies with both `error` and fields of their own
ErrorBodies ==
  {Body(m, FALSE, <<>>, NoMessage) : m \in FieldMaps}
    \cup {Body(EmptyMap, TRUE, ds, msg) :
            ds \in DetailLists, msg \in {v \in ErrorMessageValues : v.kind # "object"}}
    \cup {Body(EmptyMap, TRUE, ds, msg) :
            ds \in {l \in DetailLists : Len(l) <= 1 /\ \A i \in 1..Len(l) : l[i].message # "m2"},
            msg \in {v \in ErrorMessageValues : v.kind = "object"}}
    \cup {Body(m, TRUE, <<>>, NoMessage) : m \in FieldMaps}

\* the HTTP statuses of a response
Statuses == {200, 400, 404, 500}

\* response.ok
ResponseOk(status) == status >= 200 /\ status <= 299

\* response.status === 404
NotFoundStatus == 404

FailureStatuses == {st \in Statuses : ~ResponseOk(st)}

\* what fetch settles with: a rejection (network), or a response with its
\* status; json tells whether response.json() parses the body
CrudResponses ==
  {[kind |-> "network"]}
    \cup {[kind |-> "http", status |-> st, json |-> j, body |-> Body(EmptyMap, FALSE, <<>>, NoMessage)]
            : st \in Statuses \ FailureStatuses, j \in BOOLEAN}
    \cup {[kind |-> "http", status |-> st, json |-> FALSE, body |-> Body(EmptyMap, FALSE, <<>>, NoMessage)]
            : st \in FailureStatuses}
    \cup {[kind |-> "http", status |-> st, json |-> TRUE, body |-> b]
            : st \in FailureStatuses, b \in ErrorBodies}

\* `HTTP error! status: ${response.status}`
HttpErrorMessage(status) ==
  CASE status = 400 -> "HTTP error! status: 400"
    [] status = 404 -> "HTTP error! status: 404"
    [] status = 500 -> "HTTP error! status: 500"
    [] OTHER -> "HTTP error! status: 200"

\* Object.entries(map).forEach: a non-empty list gives its first message, a
\* string gives itself
FieldValidationErrors(map) ==
  [f \in {g \in DOMAIN map : map[g].kind = "string" \/ Len(map[g].items) > 0}
     |-> map[f].items[1]]

\* detail.target.replace(/^#\//, "")
StripPathPrefix(target) == target.name

\* errorData.error.details.forEach: each detail with a target and a message
\* assigns validationErrors[fieldName], in the order of the list
RECURSIVE DetailValidationErrors(_)
DetailValidationErrors(details) ==
  IF details = <<>> THEN EmptyMap
  ELSE LET detail == details[Len(details)]
           before == DetailValidationErrors(SubSeq(details, 1, Len(details) - 1))
       IN IF (detail.target.prefix \/ detail.target.name # "") /\ detail.message # ""
            THEN MapSet(before, StripPathPrefix(detail.target), detail.message)
            ELSE before

\* the message of the generic Error without the body's error.message
GenericMessageStatusOnly(body, status) == HttpErrorMessage(status)

\* errorData.error?.message || `HTTP error! status: ${response.status}`
GenericMessage(body, status) ==
  IF ~body.hasError \/ body.message.kind = "absent" THEN HttpErrorMessage(status)
  ELSE IF body.message.kind = "string" THEN body.message.text
  ELSE "[object Object]"

Rejected(tagged, errs, message) ==
  [kind |-> "rejected", tagged |-> tagged, errors |-> errs, message |-> message,
   value |-> "none"]

Resolved(value) ==
  [kind |-> "resolved", tagged |-> FALSE, errors |-> EmptyMap, message |-> "",
   value |-> value]

\* what create, update and patch settle with for a response: the three
\* validation formats in the order of the code (the entity-bound
\* implementation alone handles the direct format), then the generic Error
MutationOutcome(v, resp) ==
  IF resp.kind = "network" THEN Rejected(FALSE, EmptyMap, "Failed to fetch")
  ELSE IF ~resp.json THEN Rejected(FALSE, EmptyMap, "Unexpected token < in JSON")
  ELSE IF ResponseOk(resp.status) THEN Resolved("entity")
  ELSE LET errorData == resp.body
           direct == FieldValidationErrors(errorData.bare)
           odata == DetailValidationErrors(errorData.details)
           modelState == IF errorData.message.kind = "object"
                           THEN FieldValidationErrors(errorData.message.map)
                           ELSE EmptyMap
       IN IF v = "entityBound" /\ ~errorData.hasError /\ direct # EmptyMap
            THEN Rejected(TRUE, direct, "")
          ELSE IF errorData.hasError /\ odata # EmptyMap THEN Rejected(TRUE, odata, "")
          ELSE IF errorData.hasError /\ modelState # EmptyMap
            THEN Rejected(TRUE, modelState, "")
          ELSE Rejected(FALSE, EmptyMap, GenericMessage(errorData, resp.status))

\* getById that has no branch for HTTP 404
GetByIdOutcomeNoNotFound(resp) ==
  IF resp.kind = "network" THEN Rejected(FALSE, EmptyMap, "Failed to fetch")
  ELSE IF ~resp.json THEN Rejected(FALSE, EmptyMap, "Unexpected token < in JSON")
  ELSE IF ~ResponseOk(resp.status)
    THEN Rejected(FALSE, EmptyMap, GenericMessage(resp.body, resp.status))
  ELSE Resolved("entity")

\* what getById settles with: null on HTTP 404, before the body is read
GetByIdOutcome(resp) ==
  IF resp.kind = "network" THEN Rejected(FALSE, EmptyMap, "Failed to fetch")
  ELSE IF resp.status = NotFoundStatus THEN Resolved("null")
  ELSE IF ~resp.json THEN Rejected(FALSE, EmptyMap, "Unexpected token < in JSON")
  ELSE IF ~ResponseOk(resp.status)
    THEN Rejected(FALSE, EmptyMap, GenericMessage(resp.body, resp.status))
  ELSE Resolved("entity")

CrudOutcome(v, op, resp) ==
  IF op = "getById" THEN GetByIdOutcome(resp) ELSE MutationOutcome(v, resp)

\* the hook instance that makes the CRUD calls
CrudHook == "h1"

\* the start of a CRUD call: setLoading(true), setError(null), fetch
CrudCall(op, by) ==
  /\ request = NoRequest
  /\ request' = [op |-> op, by |-> by]
  /\ outcome' = NoOutcome
  /\ loading' = [loading EXCEPT ![CrudHook] = TRUE]
  /\ error' = [error EXCEPT ![CrudHook] = ""]

\* the rest of a CRUD call once fetch has settled: the catch block sets the
\* hook's error unless the error is a validation error, finally clears loading
CrudSettle(resp) ==
  LET o == CrudOutcome(crudVariant, request.op, resp)
  IN /\ request # NoRequest
     /\ outcome' = [op |-> request.op, by |-> request.by, kind |-> o.kind,
                    tagged |-> o.tagged, errors |-> o.errors, message |-> o.message,
                    value |-> o.value, response |-> resp]
     /\ error' = IF o.kind = "rejected" /\ ~o.tagged
                   THEN [error EXCEPT ![CrudHook] = o.message]
                   ELSE error
     /\ loading' = [loading EXCEPT ![CrudHook] = FALSE]
     /\ request' = NoRequest

CrudFrame ==
  UNCHANGED <<now, ticks, metadataCache, cacheWriter, cleared, calls, metadata,
              initVars, formVars, crudVariant, isSubmitting, onSuccessCalls, onErrorCalls,
              schemaVars, kitVars>>

getById == CrudCall("getById", "caller") /\ CrudFrame

create == CrudCall("create", "caller") /\ CrudFrame

update == CrudCall("update", "caller") /\ CrudFrame

patch == CrudCall("patch", "caller") /\ CrudFrame

\* the response of the call of the caller arrives
settle(resp) ==
  /\ request.by = "caller"
  /\ CrudSettle(resp)
  /\ CrudFrame

-----------------------------------------------------------------------------
(* Submit handler of ODataCreateForm.tsx: its form has no validator and    *)
(* its create is the one of the cached implementation.                     *)

HandlerFrame ==
  UNCHANGED <<now, ticks, metadataCache, cacheWriter, cleared, calls, metadata, initVars,
              variant, validator, initialValues, values, renderedValues, renderedErrors,
              lastOp, crudVariant, schemaVars, kitVars>>

\* handleSubmit up to `await create(entityName, formInstance.values)`
handleSubmit ==
  /\ crudVariant = "cached"
  /\ errors' = validateFieldsErrors
  /\ IF validateFieldsReturn
       THEN /\ isSubmitting' = TRUE
            /\ CrudCall("create", "handleSubmit")
            /\ onSuccessCalls' = <<>>
            /\ onErrorCalls' = <<>>
       ELSE UNCHANGED <<isSubmitting, request, outcome, loading, error,
                        onSuccessCalls, onErrorCalls>>
  /\ HandlerFrame

\* the handler that reports every rejection to onError
handleSubmitSettleReportAll(resp) ==
  LET o == CrudOutcome(crudVariant, "create", resp)
  IN /\ request.by = "handleSubmit"
     /\ CrudSettle(resp)
     /\ onSuccessCalls' = IF o.kind = "resolved"
                            THEN Append(onSuccessCalls, o.value) ELSE onSuccessCalls
     /\ errors' = IF o.tagged THEN Merge(errors, o.errors) ELSE errors
     /\ onErrorCalls' = IF o.kind = "rejected"
                          THEN Append(onErrorCalls, o.message) ELSE onErrorCalls
     /\ isSubmitting' = FALSE
     /\ HandlerFrame

\* handleSubmit from the settling of create on: onSuccess, or the catch
\* block (setError per field of a validation error, else onError), finally
handleSubmitSettle(resp) ==
  LET o == CrudOutcome(crudVariant, "create", resp)
  IN /\ request.by = "handleSubmit"
     /\ CrudSettle(resp)
     /\ onSuccessCalls' = IF o.kind = "resolved"
                            THEN Append(onSuccessCalls, o.value) ELSE onSuccessCalls
     /\ errors' = IF o.tagged THEN Merge(errors, o.errors) ELSE errors
     /\ onErrorCalls' = IF o.kind = "rejected" /\ ~o.tagged
                          THEN Append(onErrorCalls, o.message) ELSE onErrorCalls
     /\ isSubmitting' = FALSE
     /\ HandlerFrame

\* a hook instance of one of the implementations
InitCrud ==
  /\ InitCache /\ InitNoMounts /\ InitFormIdle /\ InitSchemaIdle /\ InitKitIdle
  /\ crudVariant \in CrudVariants
  /\ request = NoRequest
  /\ outcome = NoOutcome
  /\ isSubmitting = FALSE
  /\ onSuccessCalls = <<>>
  /\ onErrorCalls = <<>>

NextCrud ==
  \/ getById
  \/ create
  \/ update
  \/ patch
  \/ \E resp \in CrudResponses : settle(resp)

SpecCrud == InitCrud /\ [][NextCrud]_vars

\* a mounted ODataCreateForm
InitSubmit == Init

NextSubmit ==
  \/ handleSubmit
  \/ \E resp \in CrudResponses : handleSubmitSettle(resp)

SpecSubmit == InitSubmit /\ [][NextSubmit]_vars

-----------------------------------------------------------------------------
(* Claims about the CRUD client                                            *)

MutationOps == {"create", "update", "patch"}

\* the last call got a non-OK response whose body was parsed
FailureBody(o) ==
  /\ o.response.kind = "http"
  /\ ~ResponseOk(o.response.status)
  /\ o.response.json

\* the body is a bare map from field name to a non-empty list of messages
BareListBody(b) ==
  /\ ~b.hasError
  /\ b.bare # EmptyMap
  /\ \A f \in DOMAIN b.bare : b.bare[f].kind = "list" /\ Len(b.bare[f].items) > 0

\* C14: when a create gets a non-OK response whose body is a bare map from
\* field name to a non-empty list of messages, it rejects with an error
\* tagged as validation error whose map gives each field its message, in
\* every implementation of the client.
C14_BareMapIsValidationError ==
  (outcome.op = "create" /\ FailureBody(outcome) /\ BareListBody(outcome.response.body))
    => /\ outcome.kind = "rejected"
       /\ outcome.tagged
       /\ outcome.errors =
            [f \in DOMAIN outcome.response.body.bare |-> outcome.response.body.bare[f].items[1]]

\* a field's value carries a message: a non-empty list or a string
HasMessage(map, f) == map[f].kind = "string" \/ Len(map[f].items) > 0

\* the detail names a field and carries a message
ValidDetail(d) == (d.target.prefix \/ d.target.name # "") /\ d.message # ""

\* the message of the first valid detail of the list whose target is f
FirstDetailMessage(details, f) ==
  LET is == {i \in 1..Len(details) : ValidDetail(details[i]) /\ details[i].target.name = f}
      first == CHOOSE i \in is : \A j \in is : i <= j
  IN details[first].message

\* C15: the normalized validation error map holds, for each field, the first
\* message the body carries for it: the first entry of the field's list in
\* the bare map and in the error.message object, the first error.details
\* entry with that target.
C15_FirstMessagePerField ==
  (outcome.op \in MutationOps /\ outcome.tagged) =>
    LET b == outcome.response.body
    IN \A f \in DOMAIN outcome.errors :
         outcome.errors[f] =
           IF ~b.hasError THEN b.bare[f].items[1]
           ELSE IF \E i \in 1..Len(b.details) : ValidDetail(b.details[i])
             THEN FirstDetailMessage(b.details, f)
           ELSE b.message.map[f].items[1]

\* the body matches one of the three validation formats
MatchesShape(b) ==
  \/ ~b.hasError /\ \E f \in DOMAIN b.bare : HasMessage(b.bare, f)
  \/ b.hasError /\ \E i \in 1..Len(b.details) : ValidDetail(b.details[i])
  \/ b.hasError /\ b.message.kind = "object"
       /\ \E f \in DOMAIN b.message.map : HasMessage(b.message.map, f)

C17_NotFoundResolvesNull ==
  (outcome.op = "getById" /\ outcome.response.kind = "http") =>
    /\ outcome.response.status = NotFoundStatus =>
         /\ outcome.kind = "resolved" /\ outcome.value = "null"
         /\ error[CrudHook] = ""
    /\ (~ResponseOk(outcome.response.status) /\ outcome.response.status # NotFoundStatus) =>
         outcome.kind = "rejected"

\* getById got a 404 response
C17_Witness ==
  /\ outcome.op = "getById" /\ outcome.response.kind = "http"
  /\ outcome.response.status = NotFoundStatus
  /\ outcome.value = "null"
  /\ ~loading[CrudHook]

\* C18: when the create of the submit handler settles, isSubmitting is false;
\* a validation error stores each of its (field, message) pairs on the form
\* and onError is not called; any other error calls onError once with its
\* message and sets no field error; onSuccess is called only if create
\* resolved.
C18_SubmitHandlerRoutesErrors ==
  [][(request.by = "handleSubmit" /\ request' = NoRequest) =>
       /\ isSubmitting' = FALSE
       /\ outcome'.tagged =>
            /\ \A f \in DOMAIN outcome'.errors :
                 f \in DOMAIN errors' /\ errors'[f] = outcome'.errors[f]
            /\ onErrorCalls' = onErrorCalls
       /\ (outcome'.kind = "rejected" /\ ~outcome'.tagged) =>
            /\ onErrorCalls' = Append(onErrorCalls, outcome'.message)
            /\ errors' = errors
       /\ onSuccessCalls' # onSuccessCalls => outcome'.kind = "resolved"
       /\ outcome'.kind = "resolved" => (errors' = errors /\ onErrorCalls' = onErrorCalls)]_vars

\* the create of the submit handler was rejected with a validation error
C18_Witness ==
  /\ outcome.by = "handleSubmit" /\ outcome.tagged
  /\ errors = outcome.errors /\ errors # EmptyMap
  /\ onErrorCalls = <<>>
  /\ ~isSubmitting

-----------------------------------------------------------------------------
(* Schema compilation: initializeForm of the entity-bound implementation   *)
(* and of src/unnamed/part_007, generateFormSchema of the cached one.      *)
(* Property and navigation names are spelled by character, so that         *)
(* startsWith, toLowerCase and includes work on them as in the code.       *)

UpperCase == <<"A", "B", "C", "D", "E", "F", "G", "H", "I", "J", "K", "L", "M",
               "N", "O", "P", "Q", "R", "S", "T", "U", "V", "W", "X", "Y", "Z">>

LowerCase == <<"a", "b", "c", "d", "e", "f", "g", "h", "i", "j", "k", "l", "m",
               "n", "o", "p", "q", "r", "s", "t", "u", "v", "w", "x", "y", "z">>

\* String.prototype.toLowerCase
toLowerCase(str) ==
  [i \in 1..Len(str) |->
     IF \E j \in 1..Len(UpperCase) : UpperCase[j] = str[i]
       THEN LowerCase[CHOOSE j \in 1..Len(UpperCase) : UpperCase[j] = str[i]]
       ELSE str[i]]

\* String.prototype.includes
includes(str, sub) ==
  \E i \in 1..(Len(str) - Len(sub) + 1) : SubSeq(str, i, i + Len(sub) - 1) = sub

\* String.prototype.startsWith
startsWith(str, prefix) ==
  Len(str) >= Len(prefix) /\ SubSeq(str, 1, Len(prefix)) = prefix

\* the suffix of `${navProp.name}Id`
IdSuffix == <<"I", "d">>

\* the names of the properties and navigation properties of the descriptors
Name_Id == <<"I", "d">>

Name_id == <<"i", "d">>

Name_Name == <<"N", "a", "m", "e">>

Name_Summary == <<"S", "u", "m", "m", "a", "r", "y">>

Name_Price == <<"P", "r", "i", "c", "e">>

Name_Active == <<"A", "c", "t", "i", "v", "e">>

Name_Created == <<"C", "r", "e", "a", "t", "e", "d">>

Name_Email == <<"E", "m", "a", "i", "l">>

Name_Total == <<"T", "o", "t", "a", "l">>

Name_Width == <<"W", "i", "d", "t", "h">>

Name_Etag == <<"_", "_", "e", "t", "a", "g">>

Name_Data == <<"D", "a", "t", "a">>

Name_Customer == <<"C", "u", "s", "t", "o", "m", "e", "r">>

Name_Video == <<"V", "i", "d", "e", "o">>

Name_Owner == <<"O", "w", "n", "e", "r">>

Name_Items == <<"I", "t", "e", "m", "s">>

Name_Phone == <<"P", "h", "o", "n", "e">>

Name_Notes == <<"N", "o", "t", "e", "s">>

Name_Stamp == <<"S", "t", "a", "m", "p">>

Name_Token == <<"T", "o", "k", "e", "n">>

\* PropertyMetadata; maxLength 0 is undefined
Property(name, type, nullable, maxLength) ==
  [name |-> name, type |-> type, nullable |-> nullable, maxLength |-> maxLength]

\* NavigationPropertyMetadata
Navigation(name, nullable, isCollection) ==
  [name |-> name, nullable |-> nullable, isCollection |-> isCollection]

\* EntityMetadata
Entity(name, properties, navigationProperties) ==
  [name |-> name, properties |-> properties, navigationProperties |-> navigationProperties]

\* the entity types of the $metadata document a form is compiled for
EntityDescriptors ==
  { Entity("Product",
           <<Property(Name_Id, "Edm.Int32", FALSE, 0),
             Property(Name_Name, "Edm.String", FALSE, 255),
             Property(Name_Summary, "Edm.String", TRUE, 256),
             Property(Name_Price, "Edm.Decimal", FALSE, 0),
             Property(Name_Active, "Edm.Boolean", FALSE, 0),
             Property(Name_Created, "Edm.DateTimeOffset", TRUE, 0)>>,
           <<>>),
    Entity("Order",
           <<Property(Name_Id, "Edm.Int32", FALSE, 0),
             Property(Name_Customer \o IdSuffix, "Edm.Int32", FALSE, 0),
             Property(Name_Total, "Edm.Double", FALSE, 0),
             Property(Name_Email, "Edm.String", TRUE, 0)>>,
           <<Navigation(Name_Customer, FALSE, FALSE),
             Navigation(Name_Items, TRUE, TRUE)>>),
    Entity("OrderNoKey",
           <<Property(Name_Id, "Edm.Int32", FALSE, 0),
             Property(Name_Total, "Edm.Double", FALSE, 0)>>,
           <<Navigation(Name_Customer, TRUE, FALSE)>>),
    Entity("Clip",
           <<Property(Name_id, "Edm.Guid", FALSE, 0),
             Property(Name_Width, "Edm.Int64", FALSE, 0),
             Property(Name_Video \o IdSuffix, "Edm.Int32", FALSE, 0),
             Property(Name_Etag, "Edm.String", TRUE, 0),
             Property(Name_Data, "Edm.Binary", TRUE, 0)>>,
           <<Navigation(Name_Video, FALSE, FALSE),
             Navigation(Name_Owner, TRUE, FALSE)>>),
    Entity("Rental",
           <<Property(Name_Id, "Edm.Int32", FALSE, 0),
             Property(Name_Customer \o IdSuffix, "Edm.Int32", FALSE, 0),
             Property(Name_Video \o IdSuffix, "Edm.Int32", TRUE, 0),
             Property(Name_Name, "Edm.String", TRUE, 0)>>,
           <<Navigation(Name_Customer, FALSE, FALSE),
             Navigation(Name_Video, TRUE, FALSE)>>),
    Entity("Contact",
           <<Property(Name_Id, "Edm.Int32", FALSE, 0),
             Property(Name_Phone, "Edm.Int64", FALSE, 0),
             Property(Name_Notes, "Edm.String", TRUE, 100),
             Property(Name_Stamp, "Edm.DateTime", TRUE, 0),
             Property(Name_Token, "Edm.Guid", TRUE, 0),
             Property(Name_Items \o IdSuffix, "Edm.Int32", TRUE, 0)>>,
           <<Navigation(Name_Items, TRUE, TRUE)>>) }

\* the filter of the regular properties, negated: system properties and ids
IsFilteredOut(name) ==
  \/ startsWith(name, <<"_", "_">>)
  \/ name = <<"I", "d">>
  \/ name = <<"i", "d">>
  \/ includes(toLowerCase(name), <<"i", "d">>)

\* getFieldType(property) of the entity-bound implementation and of part_007
getFieldTypeOfProperty(property) ==
  CASE property.type = "Edm.String" ->
         IF property.maxLength # 0 /\ property.maxLength > 255 THEN "textarea" ELSE "text"
    [] property.type \in {"Edm.Int32", "Edm.Int64", "Edm.Decimal", "Edm.Double"} -> "number"
    [] property.type = "Edm.Boolean" -> "checkbox"
    [] property.type \in {"Edm.DateTime", "Edm.DateTimeOffset"} -> "date"
    [] property.type = "Edm.Guid" -> "text"
    [] property.type = "Edm.Binary" -> "file"
    [] OTHER -> "text"

\* getFieldType(odataType, fieldName) of the cached implementation
getFieldType(odataType, fieldName) ==
  LET fieldNameLower == toLowerCase(fieldName)
      has(sub) == includes(fieldNameLower, sub)
  IN IF has(<<"e", "m", "a", "i", "l">>) \/ has(<<"m", "a", "i", "l">>) THEN "email"
     ELSE IF has(<<"u", "r", "l">>) \/ has(<<"l", "i", "n", "k">>)
               \/ has(<<"w", "e", "b", "s", "i", "t", "e">>) THEN "url"
     ELSE IF has(<<"p", "h", "o", "n", "e">>) \/ has(<<"m", "o", "b", "i", "l", "e">>)
               \/ has(<<"t", "e", "l">>) THEN "tel"
     ELSE IF has(<<"p", "a", "s", "s", "w", "o", "r", "d">>) THEN "password"
     ELSE IF has(<<"d", "e", "s", "c", "r", "i", "p", "t", "i", "o", "n">>)
               \/ has(<<"n", "o", "t", "e", "s">>)
               \/ has(<<"c", "o", "m", "m", "e", "n", "t">>) THEN "textarea"
     ELSE CASE odataType = "Edm.String" -> "text"
            [] odataType \in {"Edm.Int32", "Edm.Int64", "Edm.Decimal", "Edm.Double"} -> "number"
            [] odataType = "Edm.Boolean" -> "checkbox"
            [] odataType \in {"Edm.DateTime", "Edm.DateTimeOffset"} -> "date"
            [] OTHER -> "text"

\* getInitialValue with the empty string for Edm.Boolean too
getInitialValueBooleanEmpty(v, odataType) ==
  CASE odataType \in {"Edm.Int32", "Edm.Int64", "Edm.Decimal", "Edm.Double"} -> "0"
    [] odataType = "Edm.Binary" /\ v # "cached" -> "null"
    [] OTHER -> "''"

\* getInitialValue, written as the JSON text of the value; the entity-bound
\* implementation and part_007 alone give null for Edm.Binary
getInitialValue(v, odataType) ==
  CASE odataType \in {"Edm.Int32", "Edm.Int64", "Edm.Decimal", "Edm.Double"} -> "0"
    [] odataType = "Edm.Boolean" -> "false"
    [] odataType = "Edm.Binary" /\ v # "cached" -> "null"
    [] OTHER -> "''"

\* an entry of the schema: type and the props required, maxLength (0 is
\* absent), step ("" is absent) and options
Field(type, required, maxLength, step, options) ==
  [type |-> type, required |-> required, maxLength |-> maxLength, step |-> step,
   options |-> options]

\* the properties that pass the filter
RegularProperties(em) ==
  {em.properties[i] : i \in {j \in 1..Len(em.properties) : ~IsFilteredOut(em.properties[j].name)}}

\* the schema entries of the regular properties
RegularSchema(v, em) ==
  [n \in {p.name : p \in RegularProperties(em)} |->
     LET prop == CHOOSE p \in RegularProperties(em) : p.name = n
     IN Field(IF v = "cached" THEN getFieldType(prop.type, prop.name)
                               ELSE getFieldTypeOfProperty(prop),
              ~prop.nullable, prop.maxLength,
              IF prop.type \in {"Edm.Decimal", "Edm.Double"} THEN "0.01" ELSE "",
              <<>>)]

RegularInitialValues(v, em) ==
  [n \in {p.name : p \in RegularProperties(em)} |->
     getInitialValue(v, (CHOOSE p \in RegularProperties(em) : p.name = n).type)]

\* the navigation properties with a property `${name}Id`, collections too
RECURSIVE ResolvedNavigationsWithCollections(_, _)
ResolvedNavigationsWithCollections(em, navs) ==
  IF navs = <<>> THEN <<>>
  ELSE LET navProp == Head(navs)
           hasForeignKey == \E i \in 1..Len(em.properties) :
                              em.properties[i].name = navProp.name \o IdSuffix
       IN IF hasForeignKey
            THEN <<navProp>> \o ResolvedNavigationsWithCollections(em, Tail(navs))
            ELSE ResolvedNavigationsWithCollections(em, Tail(navs))

\* the single-valued navigation properties with a property `${name}Id`, in
\* the order of the descriptor
RECURSIVE ResolvedNavigations(_, _)
ResolvedNavigations(em, navs) ==
  IF navs = <<>> THEN <<>>
  ELSE LET navProp == Head(navs)
           hasForeignKey == \E i \in 1..Len(em.properties) :
                              em.properties[i].name = navProp.name \o IdSuffix
       IN IF ~navProp.isCollection /\ hasForeignKey
            THEN <<navProp>> \o ResolvedNavigations(em, Tail(navs))
            ELSE ResolvedNavigations(em, Tail(navs))

\* the select entries of the resolved navigations, their options still empty
SelectSchema(navs) ==
  [k \in {navs[i].name \o IdSuffix : i \in 1..Len(navs)} |->
     Field("select",
           ~(CHOOSE n \in {navs[i] : i \in 1..Len(navs)} : n.name \o IdSuffix = k).nullable,
           0, "", <<>>)]

\* the items of a list response: Id, id, ID (0 is absent) and Name, name,
\* Title, title ("" is absent)
Item(idUpper, idLower, idCaps, nameUpper, nameLower, titleUpper, titleLower) ==
  [Id |-> idUpper, id |-> idLower, ID |-> idCaps, Name |-> nameUpper, name |-> nameLower,
   Title |-> titleUpper, title |-> titleLower]

NavItems ==
  {Item(1, 0, 0, "Ann", "", "", ""), Item(0, 2, 0, "", "", "Mr", ""),
   Item(1, 2, 0, "", "bob", "", "sir"), Item(0, 0, 2, "", "", "", "")}

NavItemLists == {<<>>} \cup {<<a>> : a \in NavItems} \cup {<<a, b>> : a, b \in NavItems}

\* what the list request of a navigation settles with: a rejection, a non-OK
\* response, a body that does not parse, or a body that is a {value: [...]}
\* object, an array or another object
NavResponses ==
  {[kind |-> "network", shape |-> "none", items |-> <<>>],
   [kind |-> "notOk", shape |-> "none", items |-> <<>>],
   [kind |-> "ok", shape |-> "unparsable", items |-> <<>>],
   [kind |-> "ok", shape |-> "object", items |-> <<>>]}
    \cup {[kind |-> "ok", shape |-> sh, items |-> l] : sh \in {"value", "array"}, l \in NavItemLists}

\* entity.Id || entity.id || entity.ID
ItemId(entity) ==
  IF entity.Id # 0 THEN entity.Id ELSE IF entity.id # 0 THEN entity.id ELSE entity.ID

\* `ID: ${entity.Id || entity.id || entity.ID}`
IdLabel(n) ==
  CASE n = 1 -> "ID: 1"
    [] n = 2 -> "ID: 2"
    [] OTHER -> "ID: undefined"

\* entity.Name || entity.name || entity.Title || entity.title || `ID: ...`
ItemLabel(entity) ==
  IF entity.Name # "" THEN entity.Name
  ELSE IF entity.name # "" THEN entity.name
  ELSE IF entity.Title # "" THEN entity.Title
  ELSE IF entity.title # "" THEN entity.title
  ELSE IdLabel(ItemId(entity))

\* entities.map(...)
OptionsOf(items) ==
  [i \in 1..Len(items) |-> [value |-> ItemId(items[i]), label |-> ItemLabel(items[i])]]

\* the list request loaded options: the response is OK and its body is a
\* {value: [...]} object or an array
Loaded(resp) == resp.kind = "ok" /\ resp.shape \in {"value", "array"}

\* the try block threw: fetch rejected, the body did not parse, or the body
\* is an object without `value`, which has no map
Threw(resp) == resp.kind = "network" \/ (resp.kind = "ok" /\ resp.shape \in {"unparsable", "object"})

CompileFrame ==
  UNCHANGED <<cacheVars, initVars, formVars, clientVars, entityMetadata, previousSchema, kitVars>>

\* setFormSchema({ schema, initialValues }); setNavigationOptions(navOptions)
Publish(schema, initialVals, navOptions) ==
  /\ formSchema' = [schema |-> schema, initialValues |-> initialVals]
  /\ navigationOptions' = navOptions

\* the effect starts initializeForm: the $metadata request is issued
initializeForm ==
  /\ crudVariant \in {"entityBound", "part007"}
  /\ compile.pc = "idle"
  /\ compile' = [compile EXCEPT !.pc = "metadata"]
  /\ UNCHANGED <<formSchema, navigationOptions>>
  /\ CompileFrame

\* the $metadata response arrives: on failure the error is logged; else the
\* schema of the regular properties and the select entries are built and
\* the list requests are issued (part_007 issues them one after the other)
initializeFormMetadata(ok) ==
  /\ compile.pc = "metadata"
  /\ IF ~ok
       THEN /\ compile' = [compile EXCEPT !.pc = "failed"]
            /\ UNCHANGED <<formSchema, navigationOptions>>
       ELSE LET navs == ResolvedNavigations(entityMetadata, entityMetadata.navigationProperties)
                selects == SelectSchema(navs)
                schema == Merge(RegularSchema(crudVariant, entityMetadata), selects)
                initialVals == Merge(RegularInitialValues(crudVariant, entityMetadata),
                                     [k \in DOMAIN selects |-> "''"])
            IN IF navs = <<>>
                 THEN /\ compile' = [compile EXCEPT !.pc = "done", !.schema = schema,
                                                    !.initialValues = initialVals]
                      /\ Publish(schema, initialVals, EmptyMap)
                 ELSE /\ compile' = [compile EXCEPT
                                       !.pc = "navigation", !.schema = schema,
                                       !.initialValues = initialVals,
                                       !.pending = [i \in 1..Len(navs) |-> navs[i].name \o IdSuffix]]
                      /\ UNCHANGED <<formSchema, navigationOptions>>
  /\ CompileFrame

\* the sequence without its element k
Remove(seq, k) == SelectSeq(seq, LAMBDA x : x # k)

\* schema[foreignKeyField].props.options = options: the entity-bound
\* implementation; part_007 keeps the options in navOptions alone
NavigationStore(v, schema, foreignKeyField, options) ==
  IF v = "entityBound"
    THEN [schema EXCEPT ![foreignKeyField].options = options]
    ELSE schema

\* the list request of a navigation settles; when it was the last one, the
\* schema is published
navigationSettle(foreignKeyField, resp) ==
  /\ compile.pc = "navigation"
  /\ Len(compile.pending) > 0
  /\ IF crudVariant = "part007"
       THEN foreignKeyField = compile.pending[1]
       ELSE \E i \in 1..Len(compile.pending) : compile.pending[i] = foreignKeyField
  /\ LET options == OptionsOf(resp.items)
         schema == IF Loaded(resp)
                     THEN NavigationStore(crudVariant, compile.schema, foreignKeyField, options)
                     ELSE compile.schema
         navOptions == IF Loaded(resp) THEN MapSet(compile.navOptions, foreignKeyField, options)
                       ELSE IF Threw(resp) THEN MapSet(compile.navOptions, foreignKeyField, <<>>)
                       ELSE compile.navOptions
         pending == Remove(compile.pending, foreignKeyField)
     IN /\ compile' = [compile EXCEPT
                         !.pc = IF pending = <<>> THEN "done" ELSE "navigation",
                         !.schema = schema, !.navOptions = navOptions, !.pending = pending,
                         !.got = MapSet(compile.got, foreignKeyField, resp)]
        /\ IF pending = <<>>
             THEN Publish(schema, compile.initialValues, navOptions)
             ELSE UNCHANGED <<formSchema, navigationOptions>>
  /\ CompileFrame

\* generateFormSchema(entityName) of the cached implementation, called by the
\* form once allMetadata is loaded: regular properties only
generateFormSchema ==
  /\ crudVariant = "cached"
  /\ compile.pc = "idle"
  /\ LET schema == RegularSchema(crudVariant, entityMetadata)
         initialVals == RegularInitialValues(crudVariant, entityMetadata)
     IN /\ compile' = [compile EXCEPT !.pc = "done", !.schema = schema,
                                      !.initialValues = initialVals]
        /\ formSchema' = [schema |-> schema, initialValues |-> initialVals]
        /\ UNCHANGED navigationOptions
  /\ CompileFrame

\* a hook instance of one of the implementations, before the document of an
\* entity arrives
InitCompile ==
  /\ InitCache /\ InitNoMounts /\ InitFormIdle /\ InitKitIdle
  /\ crudVariant \in CrudVariants
  /\ request = NoRequest
  /\ outcome = NoOutcome
  /\ isSubmitting = FALSE
  /\ onSuccessCalls = <<>>
  /\ onErrorCalls = <<>>
  /\ entityMetadata \in EntityDescriptors
  /\ compile = NoCompile
  /\ formSchema = NoSchema
  /\ navigationOptions = EmptyMap
  /\ previousSchema = <<>>

\* the keys of the select fields the descriptor gives rise to
ForeignKeyFields ==
  {n \o IdSuffix : n \in {Name_Customer, Name_Video, Name_Owner, Name_Items}}

NextCompile ==
  \/ initializeForm
  \/ \E ok \in BOOLEAN : initializeFormMetadata(ok)
  \/ \E k \in ForeignKeyFields, resp \in NavResponses : navigationSettle(k, resp)
  \/ generateFormSchema

SpecCompile == InitCompile /\ [][NextCompile]_vars

\* the effect of initializeForm runs again for the same entity on a new
\* mount of the hook, and the form calls generateFormSchema again: the
\* compilation starts over, and what it published is kept for comparison
recompile ==
  /\ compile.pc = "done"
  /\ previousSchema' = <<formSchema>>
  /\ compile' = NoCompile
  /\ formSchema' = NoSchema
  /\ navigationOptions' = EmptyMap
  /\ UNCHANGED <<cacheVars, initVars, formVars, clientVars, entityMetadata, kitVars>>

\* entities with at most one select field, compiled again and again
InitRecompile ==
  /\ InitCompile
  /\ Len(ResolvedNavigations(entityMetadata, entityMetadata.navigationProperties)) <= 1

NextRecompile == NextCompile \/ recompile

SpecRecompile == InitRecompile /\ [][NextRecompile]_vars

-----------------------------------------------------------------------------
(* Claims about the schema compilation                                     *)

\* the name is "Id" or "id" or contains "id"
IdentityName(name) ==
  name = <<"I", "d">> \/ name = <<"i", "d">> \/ includes(name, <<"i", "d">>)

\* C19: no property of the entity whose name is "Id" or "id" or contains
\* "id" is a key of the compiled schema, with or without navigation
\* properties.
C19_NoIdentityKeyInSchema ==
  \A i \in 1..Len(entityMetadata.properties) :
    IdentityName(entityMetadata.properties[i].name) =>
      entityMetadata.properties[i].name \notin DOMAIN formSchema.schema

\* C20: once the compilation of an entity with a single-valued navigation N
\* and a property N+"Id" has finished, the schema has a select field keyed
\* N+"Id", and when the list request of N succeeded its options are the list
\* built from the response.
C20_SelectOptionsFromResponse ==
  compile.pc = "done" =>
    LET navs == ResolvedNavigations(entityMetadata, entityMetadata.navigationProperties)
    IN \A i \in 1..Len(navs) :
         LET k == navs[i].name \o IdSuffix
         IN /\ k \in DOMAIN formSchema.schema
            /\ formSchema.schema[k].type = "select"
            /\ (k \in DOMAIN compile.got /\ Loaded(compile.got[k])) =>
                 formSchema.schema[k].options = OptionsOf(compile.got[k].items)

\* the properties of the descriptor have a property of that name
HasProperty(em, name) ==
  \E i \in 1..Len(em.properties) : em.properties[i].name = name

C22_SchemaBeforeOptions ==
  (compile.pc \in {"navigation", "done"} /\ crudVariant \in {"entityBound", "part007"}) =>
    /\ \A i \in 1..Len(entityMetadata.properties) :
         ~IsFilteredOut(entityMetadata.properties[i].name) =>
           entityMetadata.properties[i].name \in DOMAIN formSchema.schema
    /\ \A k \in DOMAIN compile.got :
         Loaded(compile.got[k]) =>
           /\ k \in DOMAIN navigationOptions
           /\ navigationOptions[k] = OptionsOf(compile.got[k].items)

\* the field kind of an Edm type
EdmKind(type, maxLength) ==
  CASE type = "Edm.String" -> IF maxLength > 255 THEN "textarea" ELSE "text"
    [] type \in {"Edm.Int32", "Edm.Int64", "Edm.Decimal", "Edm.Double"} -> "number"
    [] type = "Edm.Boolean" -> "checkbox"
    [] type \in {"Edm.DateTime", "Edm.DateTimeOffset"} -> "date"
    [] type = "Edm.Guid" -> "text"
    [] type = "Edm.Binary" -> "file"

\* C23: in every implementation, the kind of the field compiled for a
\* property that passes the filter is the kind of its Edm type (textarea
\* for a string with maxLength above 255), and its step is "0.01" exactly
\* for Edm.Decimal and Edm.Double.
C23_KindFollowsEdmType ==
  compile.pc = "done" =>
    \A i \in 1..Len(entityMetadata.properties) :
      LET prop == entityMetadata.properties[i]
      IN ~IsFilteredOut(prop.name) =>
           /\ prop.name \in DOMAIN formSchema.schema
           /\ formSchema.schema[prop.name].type = EdmKind(prop.type, prop.maxLength)
           /\ formSchema.schema[prop.name].step = "0.01"
                <=> prop.type \in {"Edm.Decimal", "Edm.Double"}

\* the kind a field-name heuristic gives the name, "" when none matches
NameKind(name) ==
  LET has(sub) == includes(toLowerCase(name), sub)
  IN IF has(<<"e", "m", "a", "i", "l">>) \/ has(<<"m", "a", "i", "l">>) THEN "email"
     ELSE IF has(<<"u", "r", "l">>) \/ has(<<"l", "i", "n", "k">>)
               \/ has(<<"w", "e", "b", "s", "i", "t", "e">>) THEN "url"
     ELSE IF has(<<"p", "h", "o", "n", "e">>) \/ has(<<"m", "o", "b", "i", "l", "e">>)
               \/ has(<<"t", "e", "l">>) THEN "tel"
     ELSE IF has(<<"p", "a", "s", "s", "w", "o", "r", "d">>) THEN "password"
     ELSE IF has(<<"d", "e", "s", "c", "r", "i", "p", "t", "i", "o", "n">>)
               \/ has(<<"n", "o", "t", "e", "s">>)
               \/ has(<<"c", "o", "m", "m", "e", "n", "t">>) THEN "textarea"
     ELSE ""

\* C24: the field compiled for a property whose name matches a field-name
\* heuristic has the kind of that heuristic, whatever its Edm type; a field
\* has one of the kinds email, url, tel and password only when a heuristic
\* matched its name.
C24_NameHeuristicFirst ==
  compile.pc = "done" =>
    \A i \in 1..Len(entityMetadata.properties) :
      LET prop == entityMetadata.properties[i]
      IN ~IsFilteredOut(prop.name) =>
           /\ prop.name \in DOMAIN formSchema.schema
           /\ NameKind(prop.name) # "" =>
                formSchema.schema[prop.name].type = NameKind(prop.name)
           /\ NameKind(prop.name) = "" =>
                formSchema.schema[prop.name].type \notin {"email", "url", "tel", "password"}

\* C25: the default values of a finished compilation have the keys of the
\* schema, and the value of a key is the empty string for a select and for
\* a string, date or guid property, zero for an Int32, Int64, Decimal or
\* Double property, and false for a Boolean property.
C25_DefaultsMatchSchema ==
  compile.pc = "done" =>
    /\ DOMAIN formSchema.initialValues = DOMAIN formSchema.schema
    /\ \A k \in DOMAIN formSchema.schema :
         IF formSchema.schema[k].type = "select"
           THEN formSchema.initialValues[k] = "''"
           ELSE \A i \in 1..Len(entityMetadata.properties) :
                  LET prop == entityMetadata.properties[i]
                  IN prop.name = k =>
                       /\ prop.type \in {"Edm.String", "Edm.DateTime", "Edm.DateTimeOffset",
                                         "Edm.Guid"}
                            => formSchema.initialValues[k] = "''"
                       /\ prop.type \in {"Edm.Int32", "Edm.Int64", "Edm.Decimal", "Edm.Double"}
                            => formSchema.initialValues[k] = "0"
                       /\ prop.type = "Edm.Boolean" => formSchema.initialValues[k] = "false"

\* a compilation finished with a select, a number and a string field
C25_Witness ==
  /\ compile.pc = "done" /\ entityMetadata.name = "Order"
  /\ Name_Customer \o IdSuffix \in DOMAIN formSchema.schema
  /\ formSchema.initialValues[Name_Customer \o IdSuffix] = "''"
  /\ formSchema.initialValues[Name_Total] = "0"
  /\ formSchema.initialValues[Name_Email] = "''"

\* C26: two compilations of the same entity descriptor publish the same
\* schema (keys, kinds and props) and the same default values.
C26_CompilationIsAFunction ==
  (compile.pc = "done" /\ previousSchema # <<>>) => formSchema = previousSchema[1]

-----------------------------------------------------------------------------
(* extractEntityMetadata over the parsed $metadata document. The parser    *)
(* gives an object for an element that occurs once and an array for one    *)
(* that occurs several times: a sequence of length 1 stands for the        *)
(* object, a longer one for the array, the empty one for an absent key.    *)
(* An attribute the element does not carry is not in the DOMAIN of its     *)
(* node.                                                                   *)

Name_Order == <<"O", "r", "d", "e", "r">>

Name_order == <<"o", "r", "d", "e", "r">>

\* Type of a single-valued and of a collection navigation property
Type_Single == <<"N", "S", ".", "X">>

Type_Collection == <<"C", "o", "l", "l", "e", "c", "t", "i", "o", "n", "(", "N", "S", ".", "X", ")">>

Digits == <<"0", "1", "2", "3", "4", "5", "6", "7", "8", "9">>

IsDigit(c) == \E d \in 1..Len(Digits) : Digits[d] = c

DigitValue(c) == (CHOOSE d \in 1..Len(Digits) : Digits[d] = c) - 1

\* parseInt of a string that starts with a digit: the value of its leading
\* digits
RECURSIVE parseIntFrom(_, _)
parseIntFrom(str, acc) ==
  IF str = <<>> \/ ~IsDigit(Head(str)) THEN acc
  ELSE parseIntFrom(Tail(str), acc * 10 + DigitValue(Head(str)))

parseInt(str) == parseIntFrom(str, 0)

\* the EntityType elements of the documents
EntityTypeNodes ==
  { [Name |-> Name_Order,
     Property |-> <<[Name |-> Name_Id, Type |-> "Edm.Int32", Nullable |-> "false"],
                    [Name |-> Name_Name, Type |-> "Edm.String", Nullable |-> "true",
                     MaxLength |-> <<"2", "5", "6">>]>>,
     NavigationProperty |-> <<[Name |-> Name_Customer, Type |-> Type_Single,
                                Nullable |-> "false"]>>],
    [Name |-> Name_order,
     Property |-> <<[Name |-> Name_Total, Type |-> "Edm.Double"]>>,
     NavigationProperty |-> <<>>],
    [Name |-> Name_Customer,
     Property |-> <<>>,
     NavigationProperty |-> <<[Name |-> Name_Items, Type |-> Type_Collection],
                              [Name |-> Name_Owner, Type |-> Type_Single, Nullable |-> "true"]>>] }

\* the Schema elements: up to two entity types each
SchemaNodes ==
  {[EntityType |-> l] :
     l \in {<<>>} \cup {<<a>> : a \in EntityTypeNodes}
            \cup {<<a, b>> : a, b \in EntityTypeNodes}}

\* the parsed documents: an EDMX document with up to two Schema elements, or
\* a body without edmx:Edmx / edmx:DataServices
Documents ==
  {[edmx |-> TRUE, Schema |-> l] :
     l \in {<<>>} \cup {<<a>> : a \in SchemaNodes} \cup {<<a, b>> : a, b \in SchemaNodes}}
    \cup {[edmx |-> FALSE, Schema |-> <<>>]}

\* the names extractEntityMetadata is asked for
AskedNames == {Name_Order, Name_order, Name_Customer, Name_Video}

\* the value of the attribute, "" standing for undefined
Attribute(node, key) == IF key \in DOMAIN node THEN node[key] ELSE ""

\* properties.push({ name, type, nullable, maxLength, ... })
PropertyOf(prop) ==
  Property(prop.Name, prop.Type, Attribute(prop, "Nullable") = "true",
           IF "MaxLength" \in DOMAIN prop /\ prop.MaxLength # <<>>
             THEN parseInt(prop.MaxLength) ELSE 0)

\* navigationProperties.push({ name, nullable, isCollection, ... })
NavigationOf(navProp) ==
  Navigation(navProp.Name, Attribute(navProp, "Nullable") = "true",
             startsWith(navProp.Type, <<"C", "o", "l", "l", "e", "c", "t", "i", "o", "n", "(">>))

\* return null
NullDescriptor == [kind |-> "null"]

\* extractEntityMetadata(parsedMetadata, targetEntityName) on the document
\* itself: the first Schema alone is searched, and whatever throws inside
\* the try block (no edmx:Edmx, no Schema, a navigation property without
\* Type) ends in the catch branch, which returns null
extractEntityMetadataOf(document, targetEntityName) ==
  IF ~document.edmx \/ document.Schema = <<>> THEN NullDescriptor
  ELSE LET schema == document.Schema[1]
           entityTypes == schema.EntityType
           found == {i \in 1..Len(entityTypes) : entityTypes[i].Name = targetEntityName}
       IN IF entityTypes = <<>> \/ found = {} THEN NullDescriptor
          ELSE LET targetEntity == entityTypes[CHOOSE i \in found : \A j \in found : i <= j]
                   navProps == targetEntity.NavigationProperty
               IN IF \E i \in 1..Len(navProps) : "Type" \notin DOMAIN navProps[i]
                    THEN NullDescriptor
                    ELSE [kind |-> "descriptor",
                          value |-> Entity(targetEntity.Name,
                                           [i \in 1..Len(targetEntity.Property) |->
                                              PropertyOf(targetEntity.Property[i])],
                                           [i \in 1..Len(navProps) |->
                                              NavigationOf(navProps[i])])]

\* a caller hands a document and a name to extractEntityMetadata
extract ==
  /\ extracted = NotExtracted
  /\ extracted' = extractEntityMetadataOf(parsedMetadata, askedEntityName)
  /\ UNCHANGED <<cacheVars, initVars, formVars, clientVars, schemaVars,
                 parsedMetadata, askedEntityName, factoryVars, fetcherVars>>

InitExtract ==
  /\ InitCache /\ InitNoMounts /\ InitFormIdle /\ InitClientIdle /\ InitSchemaIdle
  /\ parsedMetadata \in Documents
  /\ askedEntityName \in AskedNames
  /\ extracted = NotExtracted
  /\ InitFactoryIdle /\ InitFetcherIdle

NextExtract == extract

SpecExtract == InitExtract /\ [][NextExtract]_vars

\* the entity types the document declares, in whichever Schema
DeclaredNames(document) ==
  UNION {{document.Schema[i].EntityType[j].Name : j \in 1..Len(document.Schema[i].EntityType)} :
           i \in 1..Len(document.Schema)}

\* C27: extractEntityMetadata returns the descriptor of the entity type
\* whose Name is exactly the name asked for when the document declares one,
\* and returns null, without throwing, when it declares none.
C27_ExactNameOrNull ==
  extracted # NotExtracted =>
    IF askedEntityName \in DeclaredNames(parsedMetadata)
      THEN extracted.kind = "descriptor" /\ extracted.value.name = askedEntityName
      ELSE extracted = NullDescriptor

-----------------------------------------------------------------------------
(* The field factory: FormControlRegistry, ComponentResolver and           *)
(* createInputFactory of Builder/core/useForm.ts, FormFactory of           *)
(* Referential/MetadataExample.tsx.                                        *)

FactoryVariants == {"createInputFactory", "FormFactory"}

RegistryKeys == {"a", "b"}

ControlTypes == {"text", "select"}

ControlPropsChoices == {[label |-> "L1"], [label |-> "L2"]}

\* the overrides a caller passes to field and renderField
OverrideChoices == {EmptyMap, [label |-> "O"], [component |-> "Custom"]}

\* the overrides by key a caller passes to renderAll
OverridesByKeyChoices == {EmptyMap, [a |-> [component |-> "Custom"]]}

\* InputConfig: components by control type, defaultComponent ("" is absent)
Configs ==
  [components : {EmptyMap, [text |-> "TextInput"], [text |-> "TextInput", select |-> "Select"]},
   defaultComponent : {"", "Fallback"}]

\* the schemas handed to initFromJson
Jsons ==
  {EmptyMap,
   [a |-> [type |-> "text", props |-> [label |-> "L1"]]],
   [a |-> [type |-> "select", props |-> [label |-> "L2"]],
    b |-> [type |-> "text", props |-> [label |-> "L1"]]]}

\* FormControlDefinition
Definition(key, type, props) == [key |-> key, type |-> type, props |-> props]

\* a registry whose set keeps the definition a key already has
registrySetKeepFirst(reg, key, definition) ==
  IF key \in DOMAIN reg THEN reg ELSE MapSet(reg, key, definition)

\* this.registry.set(key, definition)
registrySet(reg, key, definition) == MapSet(reg, key, definition)

\* Object.entries(json).forEach(([key, { type, props }]) => this.preset(key, type, props))
RECURSIVE presetEntries(_, _, _)
presetEntries(reg, json, keys) ==
  IF keys = {} THEN reg
  ELSE LET key == CHOOSE k \in keys : TRUE
       IN presetEntries(registrySet(reg, key, Definition(key, json[key].type, json[key].props)),
                        json, keys \ {key})

\* ComponentResolver.resolve, and the same expression in FormFactory
resolve(cfg, type) ==
  IF type \in DOMAIN cfg.components THEN cfg.components[type]
  ELSE IF cfg.defaultComponent # "" THEN cfg.defaultComponent
  ELSE "input"

\* new Error(`Unknown control: ${key}`) of the registry, and
\* new Error(`Unknown field: ${key}`) of FormFactory.field
UnknownMessage(v) == IF v = "createInputFactory" THEN "Unknown control" ELSE "Unknown field"

\* React.createElement(Component, {...definition.props, ...overrides, name: key, ...})
Element(cfg, definition, overrides) ==
  [Component |-> resolve(cfg, definition.type),
   props |-> Merge(Merge(definition.props, overrides), [name |-> definition.key])]

FactoryFrame ==
  UNCHANGED <<cacheVars, initVars, formVars, clientVars, schemaVars, extractVars,
              fetcherVars, factoryVariant, config>>

\* preset(key, type, props)
preset(key, type, props) ==
  /\ registry' = registrySet(registry, key, Definition(key, type, props))
  /\ latest' = [k \in DOMAIN latest \cup {key} |->
                  IF k = key THEN Definition(key, type, props) ELSE latest[k]]
  /\ factoryCall' = [NoFactoryCall EXCEPT
                       !.op = "preset", !.key = key,
                       !.definition = IF factoryVariant = "createInputFactory"
                                        THEN Definition(key, type, props) ELSE EmptyMap]
  /\ FactoryFrame

\* initFromJson(json); useForm calls it with the schema when it makes the
\* factory
initFromJson(json) ==
  /\ registry' = presetEntries(registry, json, DOMAIN json)
  /\ latest' = [k \in DOMAIN latest \cup DOMAIN json |->
                  IF k \in DOMAIN json THEN Definition(k, json[k].type, json[k].props)
                  ELSE latest[k]]
  /\ factoryCall' = [NoFactoryCall EXCEPT !.op = "initFromJson"]
  /\ FactoryFrame

\* what a lookup of the key leaves in factoryCall: the definition, or the
\* Error thrown
Lookup(op, key, overrides, withElement) ==
  IF key \in DOMAIN registry
    THEN [NoFactoryCall EXCEPT
            !.op = op, !.key = key, !.overrides = [k \in {key} |-> overrides],
            !.definition = registry[key],
            !.elements = IF withElement
                           THEN [k \in {key} |-> Element(config, registry[key], overrides)]
                           ELSE EmptyMap]
    ELSE [NoFactoryCall EXCEPT
            !.op = op, !.key = key, !.overrides = [k \in {key} |-> overrides],
            !.kind = "threw", !.message = UnknownMessage(factoryVariant)]

\* get(key) of the registry, which createInputFactory hands out
get(key) ==
  /\ factoryVariant = "createInputFactory"
  /\ factoryCall' = Lookup("get", key, EmptyMap, FALSE)
  /\ UNCHANGED <<registry, latest>>
  /\ FactoryFrame

\* field(key, overrides, formInstance)
field(key, overrides) ==
  /\ factoryCall' = Lookup("field", key, overrides, TRUE)
  /\ UNCHANGED <<registry, latest>>
  /\ FactoryFrame

\* renderField(key, overrides) of the form instance: formFactory.field
renderField(key, overrides) ==
  /\ factoryCall' = Lookup("renderField", key, overrides, TRUE)
  /\ UNCHANGED <<registry, latest>>
  /\ FactoryFrame

\* renderAll(overrides, formInstance): an element for every definition
renderAll(overridesByKey) ==
  /\ factoryCall' =
       [NoFactoryCall EXCEPT
          !.op = "renderAll", !.overrides = overridesByKey,
          !.elements = [k \in DOMAIN registry |->
                          Element(config, registry[k],
                                  IF k \in DOMAIN overridesByKey THEN overridesByKey[k]
                                  ELSE EmptyMap)]]
  /\ UNCHANGED <<registry, latest>>
  /\ FactoryFrame

\* a factory just made with its config, nothing preset
InitFactory ==
  /\ InitCache /\ InitNoMounts /\ InitFormIdle /\ InitClientIdle /\ InitSchemaIdle
  /\ InitExtractIdle /\ InitFetcherIdle
  /\ factoryVariant \in FactoryVariants
  /\ config \in Configs
  /\ registry = EmptyMap
  /\ latest = EmptyMap
  /\ factoryCall = NoFactoryCall

NextFactory ==
  \/ \E key \in RegistryKeys, type \in ControlTypes, props \in ControlPropsChoices :
       preset(key, type, props)
  \/ \E json \in Jsons : initFromJson(json)
  \/ \E key \in RegistryKeys : get(key)
  \/ \E key \in RegistryKeys, overrides \in OverrideChoices : field(key, overrides)
  \/ \E key \in RegistryKeys, overrides \in OverrideChoices : renderField(key, overrides)
  \/ \E overridesByKey \in OverridesByKeyChoices : renderAll(overridesByKey)

SpecFactory == InitFactory /\ [][NextFactory]_vars

\* C28: get(key) returns the definition most recently preset under the key
\* (by preset or initFromJson) if there is one, and otherwise throws the
\* unknown-key Error; field(key) and renderField(key) find or fail the same
\* way; none of them changes the registry.
C28_GetLatestOrUnknown ==
  [][(factoryCall' # factoryCall /\ factoryCall'.op \in {"get", "field", "renderField"}) =>
       /\ registry' = registry
       /\ IF factoryCall'.key \in DOMAIN latest
            THEN /\ factoryCall'.kind = "returned"
                 /\ factoryCall'.definition = latest[factoryCall'.key]
            ELSE /\ factoryCall'.kind = "threw"
                 /\ factoryCall'.message \in {"Unknown control", "Unknown field"}
                 /\ factoryCall'.elements = EmptyMap]_vars

\* field threw for a key that was not preset while another key was
C28_Witness ==
  /\ factoryCall.op = "field" /\ factoryCall.kind = "threw"
  /\ factoryCall.key \notin DOMAIN registry
  /\ registry # EmptyMap

\* the renderer the fallback order gives a field of that type with those
\* overrides
FirstAvailable(cfg, type, overrides) ==
  IF "component" \in DOMAIN overrides THEN overrides.component
  ELSE IF type \in DOMAIN cfg.components THEN cfg.components[type]
  ELSE IF cfg.defaultComponent # "" THEN cfg.defaultComponent
  ELSE "input"

\* C29: the renderer of every element that field, renderField and renderAll
\* create is the first available of: the override given for that one
\* field, the renderer configured for its type, the configured default
\* renderer, and "input".
C29_ResolveOrder ==
  (factoryCall.op \in {"field", "renderField", "renderAll"} /\ factoryCall.kind = "returned") =>
    \A k \in DOMAIN factoryCall.elements :
      factoryCall.elements[k].Component =
        FirstAvailable(config, registry[k].type,
                       IF k \in DOMAIN factoryCall.overrides THEN factoryCall.overrides[k]
                       ELSE EmptyMap)

-----------------------------------------------------------------------------
(* Claims about the metadata fetch on mount                                *)

\* the metadata fetch that instance t started on mount has failed
MountFetchFailed(t) == timers[t].state = "done" /\ timers[t].promise = "rejected"

\* C30: when the metadata fetch that a hook instance performs on mount has
\* failed, the failure is reported to the caller of the hook: the error
\* state is not null. (The hook returns no promise of this fetch to its
\* caller; the promise of debouncedInitializeMetadata goes to the effect,
\* which logs its rejection.)
C30_MountFailureReported ==
  \A t \in TimerIds : MountFetchFailed(t) => \E h \in Hooks : error[h] # ""

-----------------------------------------------------------------------------
(* Claims about the error operations of the form                           *)

\* the error of every key but k is what it was
OtherErrorsKept(k) ==
  \A j \in FormKeys \ {k} :
    /\ (j \in DOMAIN errors') = (j \in DOMAIN errors)
    /\ j \in DOMAIN errors => errors'[j] = errors[j]

\* C39: setError(k, m), clearError(k) and clearAllErrors() leave values
\* unchanged; setError(k, m) leaves errors[k] = m, clearError(k) leaves k
\* without an error, and both leave the error of every other key as it was;
\* clearAllErrors() leaves the error map empty.
C39_ErrorOpsFrame ==
  [][/\ \A k \in FormKeys, m \in ErrorMessages :
          setError(k, m) =>
            /\ values' = values
            /\ k \in DOMAIN errors' /\ errors'[k] = m
            /\ OtherErrorsKept(k)
     /\ \A k \in FormKeys :
          clearError(k) =>
            /\ values' = values
            /\ k \notin DOMAIN errors'
            /\ OtherErrorsKept(k)
     /\ clearAllErrors => (values' = values /\ errors' = EmptyMap)]_vars

\* setError was called for a key while the other key had an error and the
\* values were not the initial ones
C39_Witness ==
  /\ lastOp.op = "setError" /\ ~lastOp.pre
  /\ DOMAIN errors = FormKeys
  /\ values # initialValues

\* C31: every key of the values of a form whose initialValues have the
\* keys of its schema is a key of the schema, whatever was called on the
\* form.
C31_ValuesKeysInSchema ==
  DOMAIN values \subseteq DOMAIN initialValues

-----------------------------------------------------------------------------
(* Claims about the records of the metadata cache                          *)

\* the record under cacheKey is written or replaced by this step
Written(cacheKey) ==
  /\ cacheKey \in DOMAIN metadataCache'
  /\ \/ cacheKey \notin DOMAIN metadataCache
     \/ metadataCache'[cacheKey] # metadataCache[cacheKey]
     \/ cacheWriter'[cacheKey] # cacheWriter[cacheKey]

\* C32: a record is written to the metadata cache only by a fetch that
\* completes successfully at that moment; the record has timestamp = the
\* time of the completion and expiresAt = timestamp + cacheTimeout, and it
\* holds the descriptor of the entity of the key it is stored under.
C32_RecordExpiresAfterTimeout ==
  [][\A cacheKey \in CacheKeys :
       Written(cacheKey) =>
         /\ metadataCache'[cacheKey].timestamp = now
         /\ metadataCache'[cacheKey].expiresAt
              = metadataCache'[cacheKey].timestamp + cacheTimeout
         /\ metadataCache'[cacheKey].data = [name |-> cacheKey[2]]
         /\ \E c \in 1..Len(calls) :
              /\ calls[c].pc = "fetching" /\ calls'[c].pc = "resolved"
              /\ CacheKey(baseUrlOf[calls[c].hook], calls[c].entityName) = cacheKey
              /\ cacheWriter'[cacheKey] = c]_vars

\* a fetch that completed after the clock had advanced left its record,
\* while an earlier record of the other entity is still in the cache
C32_Witness ==
  \E k1, k2 \in DOMAIN metadataCache :
    /\ metadataCache[k1].timestamp = 0
    /\ metadataCache[k2].timestamp > 0
    /\ metadataCache[k2].expiresAt = metadataCache[k2].timestamp + cacheTimeout

\* C35: an entry that clearCache or clearAllCache removed is put back only
\* by a fetchMetadata call that started after the removal: a call that was
\* in flight when the entry was removed does not store its result.
C35_ClearedEntryStaysCleared ==
  [][\A cacheKey \in cleared :
       cacheKey \in DOMAIN metadataCache' =>
         calls[cacheWriter'[cacheKey]].afterClear]_vars

\* C36: loading of a hook instance is true exactly while at least one of
\* its calls is in flight: true in every state in which a call awaits its
\* response, also when calls overlap, and false once none does.
C36_LoadingWhileInFlight ==
  \A h \in Hooks :
    loading[h] <=> \E c \in 1..Len(calls) :
                     calls[c].hook = h /\ calls[c].pc = "fetching"

-----------------------------------------------------------------------------
(* Claims about the debounced initialisation across instances              *)

\* the timers of baseUrl u that were set and have neither fired nor been
\* cancelled
PendingTimers(u) ==
  {t \in TimerIds : timers[t].baseUrl = u /\ timers[t].state = "pending"}

\* C33: at any time at most one initialisation timer is pending per baseUrl:
\* every earlier timer of the baseUrl that has not fired was cancelled when
\* a new one was scheduled, in every interleaving of scheduling, firing and
\* fetch completion.
C33_OnePendingTimerPerBaseUrl ==
  \A u \in InitBaseUrls : Cardinality(PendingTimers(u)) <= 1

\* the debounced fetch of baseUrl u succeeded
FetchSucceeded(u) == u \in DOMAIN sharedMetadataState

\* C34: once a debounced fetch of a baseUrl has succeeded, every mounted
\* instance of that baseUrl whose 100 ms poll has come due eventually has
\* allMetadata non-null, also an instance whose own timer was cancelled by
\* a later instance.
C34_SharedMetadataReachesAll ==
  \A i \in 1..MaxMounts :
    (/\ i \in TimerIds
     /\ FetchSucceeded(timers[i].baseUrl)
     /\ now >= timers[i].scheduledAt + PollInterval)
      ~> (i \in TimerIds /\ allMetadata[i] # NoDoc)

\* an instance whose timer was cancelled has the document that the fetch of
\* a later instance, the only fetch so far, brought
C34_Witness ==
  \E i, d \in TimerIds :
    /\ i < d
    /\ timers[i].state = "cancelled" /\ timers[i].baseUrl = timers[d].baseUrl
    /\ timers[d].state = "done" /\ timers[d].promise = "resolved"
    /\ \A o \in TimerIds : timers[o].state = "done" => o = d
    /\ allMetadata[i] # NoDoc

-----------------------------------------------------------------------------
(* ODataMetadataFetcher.tsx: the component that loads the metadata of the  *)
(* entity named by its prop entityName through fetchMetadata of its hook   *)

\* the hook instance of the component
FetcherHook == "h1"

\* currentEntityRef.current: the effect sets it to entityName right before
\* it calls fetchMetadata(entityName), so it is the entity of the latest
\* call ("" is null)
currentEntityRef ==
  IF calls = <<>> THEN "" ELSE calls[Len(calls)].entityName

\* the promise of every settled fetchMetadata call has been handled: the
\* continuation of loadMetadata is a microtask of the settlement and runs
\* before any other response or render
LoadsHandled ==
  \A c \in 1..Len(calls) : calls[c].pc = "fetching" \/ c \in loadsDone

\* The component renders with the prop entityName = e and the load effect
\* runs: nothing when the ref already holds e, else the ref is set and
\* loadMetadata calls fetchMetadata(e).
loadEffect(e) ==
  /\ LoadsHandled
  /\ currentEntityRef # e
  /\ fetchMetadata(FetcherHook, e, FALSE)

\* the response of call c arrives and fetchMetadata settles
loadResponse(c, resp) ==
  /\ LoadsHandled
  /\ fetchMetadataComplete(c, resp)

\* loadMetadata after its await, for call c: the metadata is displayed and
\* handed to onMetadataLoaded, or the catch branch clears currentMetadata
loadMetadata(c) ==
  /\ c \notin loadsDone
  /\ calls[c].pc \in {"resolved", "rejected"}
  /\ loadsDone' = loadsDone \cup {c}
  /\ IF calls[c].pc = "resolved"
       THEN /\ currentMetadata' = calls[c].result
            /\ onMetadataLoadedCalls' = Append(onMetadataLoadedCalls, calls[c].result)
       ELSE /\ currentMetadata' = NoData
            /\ UNCHANGED onMetadataLoadedCalls
  /\ UNCHANGED <<cacheVars, initVars, formVars, clientVars, schemaVars, extractVars, factoryVars>>

NextFetcher ==
  \/ \E e \in Entities : loadEffect(e)
  \/ \E c \in 1..Len(calls), resp \in Responses : loadResponse(c, resp)
  \/ \E c \in 1..Len(calls) : loadMetadata(c)
  \/ \E d \in ClockSteps : Tick(d)

SpecFetcher == Init /\ [][NextFetcher]_vars

\* C37: when entityName changed from one entity to another and both
\* fetches have completed with a descriptor and been handled, the metadata
\* displayed, and the metadata onMetadataLoaded was called with last, is
\* that of the entity asked for last, whichever fetch completed last.
C37_LatestEntityDisplayed ==
  (/\ Len(calls) = 2
   /\ calls[1].entityName # calls[2].entityName
   /\ calls[1].pc = "resolved" /\ calls[2].pc = "resolved"
   /\ loadsDone = {1, 2})
    => /\ currentMetadata = [name |-> calls[2].entityName]
       /\ onMetadataLoadedCalls[Len(onMetadataLoadedCalls)]
            = [name |-> calls[2].entityName]

-----------------------------------------------------------------------------
(* ODataCreateForm.tsx as the user drives it: the rendered fields are      *)
(* those of the compiled schema, the Create button runs handleSubmit       *)

\* the fields of the compiled schema (generateFormSchema leaves out the
\* properties whose name holds "id" and the system properties), out of the
\* fields the backend may name in a validation response
CreateFormFields == {"Name"}

\* the user edits the rendered field k: its input calls setValue(k, v)
editField(k, v) ==
  /\ k \in DOMAIN initialValues
  /\ ~isSubmitting
  /\ setValue(k, v)

\* the user clicks Create, which is disabled while the form is submitting
\* or the rendered error map is non-empty
clickCreate ==
  /\ ~isSubmitting
  /\ renderedErrors = EmptyMap /\ errors = EmptyMap
  /\ handleSubmit

\* a mounted ODataCreateForm whose schema has been compiled: no validator,
\* the values are the initial values of the schema's fields
InitCreateForm ==
  /\ InitCache /\ InitNoMounts /\ InitClientIdle /\ InitSchemaIdle /\ InitKitIdle
  /\ variant = "useForm"
  /\ validator = "none"
  /\ initialValues = [k \in CreateFormFields |-> ""]
  /\ values = initialValues
  /\ errors = EmptyMap
  /\ renderedValues = values
  /\ renderedErrors = errors
  /\ lastOp = NoOp

NextCreateForm ==
  \/ \E k \in CreateFormFields, v \in FieldValues : editField(k, v)
  \/ clickCreate
  \/ \E resp \in CrudResponses : handleSubmitSettle(resp)
  \/ Render

SpecCreateForm == InitCreateForm /\ [][NextCreateForm]_vars

\* C38: every key of the error map of the create form is the key of a
\* rendered field of the compiled schema, so that edits of the rendered
\* fields can empty the error map and enable the Create button again.
C38_ErrorKeysAreRenderedFields ==
  DOMAIN errors \subseteq DOMAIN initialValues

\* an error under a key that no rendered field has is never removed: the
\* error map stays non-empty and the Create button disabled
UnrenderedErrorStays ==
  [][DOMAIN errors \ DOMAIN initialValues # {}
       => DOMAIN errors' \ DOMAIN initialValues # {}]_vars

=============================================================================
